---- MODULE Spec2Model ----
(***************************************************************************)
(* A model of the PDF reading agent's client (App, AgentPanel, api.js) and *)
(* of the Document Knowledge Engine it talks to.  The client is translated *)
(* from the JavaScript sources; the engine (the FastAPI backend) is not    *)
(* part of the sources and is modelled from its specification.             *)
(*                                                                         *)
(* Three specifications share the variables:                               *)
(*   SpecEmbed  upload, history list, Embed, delete, background ingestion  *)
(*   SpecRef    figure catalog and clickable references                    *)
(*   SpecAgent  the Agent panel's requests, Stop and RAG cards             *)
(***************************************************************************)
EXTENDS Integers, Sequences, FiniteSets, TLC

(***************************************************************************)
(* Bounds of the model                                                     *)
(***************************************************************************)
\* requests of the client that can be in flight at the same time
MaxInFlight == 3
\* chunks of the larger document
MaxChunks == 2

(***************************************************************************)
(* Documents and files                                                     *)
(***************************************************************************)
DocIds == {"h1", "h2"}

\* Files the user can choose: a.pdf and copy.pdf hold the same bytes.
Files ==
  { [name |-> "a.pdf", bytes |-> 1],
    [name |-> "copy.pdf", bytes |-> 1] }

\* What the file input can deliver: one file, or several files.
FileSeqs ==
  { <<f>> : f \in Files } \cup
  { <<f, g>> : f \in { x \in Files : x.name = "a.pdf" },
               g \in { x \in Files : x.name # "a.pdf" } }

EmbeddingStatus == {"none", "processing", "completed", "failed"}

RemoveAt(s, i) == SubSeq(s, 1, i - 1) \o SubSeq(s, i + 1, Len(s))

Range(s) == { s[i] : i \in DOMAIN s }

VARIABLES
  \* ---- Document Knowledge Engine (backend) ----
  status,        \* doc_id -> "absent" or the Document's embedding_status
  index,         \* doc_id -> number of persisted Chunks a retrieval sees
  embedded,      \* doc_id -> embeddings computed by its latest ingestion task
  stored,        \* doc_id -> bytes of the PDF kept under that id, 0 if none
  tasks,         \* doc_id -> sequence of running ingestion tasks
  \* ---- requests in flight ----
  upload,        \* the upload request of handleFileUpload
  embedReqs,     \* doc_id -> sequence of embedDocument request states
  histReqs,      \* sequence of getUploadedFiles requests
  metaReqs,      \* sequence of getDocMeta requests (loadDocData)
  delReqs,       \* doc_id -> state of the deleteDocument request
  \* ---- App state ----
  docId,
  currentPage,
  isUploading,
  showHistoryModal,
  loadingHistory,
  uploadedFiles, \* doc_id -> embedding_status shown in the list, "absent" if not listed
  embeddingInProgress,
  figures,
  showFigures,
  alert,         \* window.alert raised by the latest handler step, "" if none
  \* ---- figure catalog and references ----
  catalog,       \* engine: the open Document's Figure catalog
  figReqs,       \* sequence of getDocFigures requests
  resolveReqs,   \* sequence of resolveReference requests
  \* ---- Agent panel ----
  loading,
  ragQuerying,
  messages,
  input,
  abortControllerRef, \* 0 for null, else the id of the AbortController
  agentReqs,     \* sequence of the panel's requests in flight
  topK,          \* engine: top_k of the rag-query endpoint
  \* ---- notes, chat history and the PDF of the open document ----
  notes,
  chatHistory,
  pdfUrl,
  docNotes,      \* engine: doc_id -> stored notes
  docChat,       \* engine: doc_id -> stored chat history
  \* ---- summary, diagram and paper analysis ----
  isGeneratingSummary,
  appAbortControllerRef, \* App's abortControllerRef: 0 for null
  genReqs,       \* sequence of App's generation requests in flight
  \* ---- autosave of the chat history ----
  autosaveTimer, \* the 2-second timer of the autosave effect is pending
  saveReqs,      \* sequence of saveChatHistory requests
  \* ---- the notes of the notebook and the PDF viewer ----
  noteReqs,      \* sequence of addNoteToDoc, removeNote and updateNote requests
  editor,        \* the note editor (FullscreenModal)
  numPages       \* PDFViewer: pages of the loaded PDF, 0 for null

backendVars == <<status, index, embedded, stored, tasks>>
netVars == <<upload, embedReqs, histReqs, metaReqs, delReqs>>
appState == <<docId, currentPage, isUploading, showHistoryModal, loadingHistory,
              uploadedFiles, embeddingInProgress, figures, showFigures>>
appVars == <<docId, currentPage, isUploading, showHistoryModal, loadingHistory,
             uploadedFiles, embeddingInProgress, figures, showFigures, alert>>
refVars == <<catalog, figReqs, resolveReqs>>
agentVars == <<loading, ragQuerying, messages, input, abortControllerRef,
               agentReqs, topK>>
panelVars == <<refVars, agentVars>>
docVars == <<notes, chatHistory, pdfUrl, docNotes, docChat>>
genVars == <<isGeneratingSummary, appAbortControllerRef, genReqs>>
saveVars == <<autosaveTimer, saveReqs>>
noteVars == <<noteReqs, editor>>
moreVars == <<docVars, genVars, saveVars, noteVars, numPages>>
vars == <<backendVars, netVars, appVars, panelVars, moreVars>>

NoDoc == "null"

\* An id is a prefix and a number, as in `fig-analysis-${Date.now()}`; a card
\* or a note without an id (undefined in the code) has NoId
NoId == <<"", 0>>

\* No note
NoNote == [id |-> NoId, type |-> "", doc |-> NoDoc, content |-> ""]

\* The note editor is closed
NoEditor == [isOpen |-> FALSE, selectedNote |-> NoNote, isEditing |-> FALSE,
             isSaving |-> FALSE]


RECURSIVE SumLen(_, _)
SumLen(f, S) ==
  IF S = {} THEN 0
  ELSE LET d == CHOOSE x \in S : TRUE IN Len(f[d]) + SumLen(f, S \ {d})

\* Number of requests the client is waiting for
InFlight ==
  (IF upload.st = "idle" THEN 0 ELSE 1) + SumLen(embedReqs, DocIds)
  + Len(histReqs) + Len(metaReqs)
  + Len(figReqs) + Len(resolveReqs) + Len(agentReqs)
  + Len(genReqs) + Len(saveReqs)
  + Cardinality({ d \in DocIds : delReqs[d].st # "idle" })

\* The model can hold n more requests
Room(n) == InFlight + n <= MaxInFlight

(***************************************************************************)
(* The engine, modelled from the specification                             *)
(***************************************************************************)
\* identify(bytes): the content hash of the raw file
identify(file) == IF file.bytes = 1 THEN "h1" ELSE "h2"

\* Number of chunks layout extraction yields for a Document
NChunks(d) == MaxChunks

\* ingest(doc_id) starts a task only for a Document that is neither being
\* ingested nor completed
MayIngest(s) == s \in {"absent", "none", "failed"}

NewTask(origin) == [progress |-> 0, origin |-> origin]

\* What the engine answers about one ingest request for a Document in state s
IngestAnswer(s) ==
  IF MayIngest(s) THEN "accepted"
  ELSE IF s = "completed" THEN "already_completed" ELSE "already_processing"

\* upload-pdf: create the Document on the first upload of its bytes
StoreUpload(st, d) == IF st[d] = "absent" THEN [st EXCEPT ![d] = "none"] ELSE st

\* The PDFs kept after storing the files fs: an id that holds a file keeps it
RECURSIVE StoreFiles(_, _)
StoreFiles(sto, fs) ==
  IF fs = <<>> THEN sto
  ELSE LET d == identify(Head(fs)) IN
       StoreFiles(IF sto[d] = 0 THEN [sto EXCEPT ![d] = Head(fs).bytes] ELSE sto,
                  Tail(fs))

\* upload-and-embed: every file is stored and its Document ingested unless it
\* is already completed or being ingested.  Yields the new status and tasks
\* and one answer per file.
RECURSIVE BatchIngest(_, _, _, _)
BatchIngest(fs, st, tk, ans) ==
  IF fs = <<>> THEN [status |-> st, tasks |-> tk, answers |-> ans]
  ELSE LET d == identify(Head(fs))
           a == [doc_id |-> d, result |-> IngestAnswer(st[d])]
       IN IF MayIngest(st[d])
          THEN BatchIngest(Tail(fs), [st EXCEPT ![d] = "processing"],
                           [tk EXCEPT ![d] = Append(@, NewTask("batch"))],
                           Append(ans, a))
          ELSE BatchIngest(Tail(fs), st, tk, Append(ans, a))

\* The chunks a retrieval can see for a Document
VisibleChunks(d) == index[d]

\* The first accepted embedDocument request of a doc_id, 0 if none
AcceptedReq(d) ==
  IF \E i \in DOMAIN embedReqs[d] : embedReqs[d][i] = "accepted"
  THEN CHOOSE i \in DOMAIN embedReqs[d] :
         /\ embedReqs[d][i] = "accepted"
         /\ \A j \in 1..(i - 1) : embedReqs[d][j] # "accepted"
  ELSE 0

\* The answer of the embed endpoint reaches the request that started the task
Deliver(d, t, answer) ==
  IF t.origin = "embed" /\ AcceptedReq(d) # 0
  THEN [embedReqs EXCEPT ![d][AcceptedReq(d)] = answer]
  ELSE embedReqs


(***************************************************************************)
(* App: the history list and its Embed button                              *)
(***************************************************************************)
HistSent == [st |-> "sent", snap |-> [d \in DocIds |-> "absent"]]

\* loadHistoryFiles up to its await: a getUploadedFiles request leaves
LoadHistoryFiles(h) == Append(h, HistSent)

\* loadDocData(id) up to its await; the effect on docId runs it once more
\* when docId changes
LoadDocData(m, old, d) == IF old # d THEN m \o <<d, d>> ELSE Append(m, d)

\* The upload box (file input and History button) is rendered
UploadBoxShown == docId = NoDoc /\ ~isUploading /\ ~showHistoryModal

\* The modal shows the list of files
ListShown == showHistoryModal /\ ~loadingHistory

Listed(d) == uploadedFiles[d] # "absent"

\* The Embed button is rendered for a file of the list
EmbedOfferedAlways(d) == Listed(d)
EmbedOffered(d) ==
  Listed(d) /\ uploadedFiles[d] # "completed" /\ uploadedFiles[d] # "processing"

\* The Embed button is not disabled
EmbedEnabledAlways(d) == TRUE
EmbedEnabled(d) == ~embeddingInProgress[d]

\* handleTriggerEmbedding treats the answer as a success
EmbedSucceededStrict(res) == res = "success"
EmbedSucceeded(res) == res = "success" \/ res = "already_completed"

IdleUpload == [st |-> "idle", files |-> <<>>, answers |-> <<>>]

(***************************************************************************)
(* handleFileUpload                                                        *)
(***************************************************************************)
handleFileUpload(fs) ==
  /\ UploadBoxShown
  /\ upload.st = "idle"
  /\ Room(1)
  /\ isUploading' = TRUE
  /\ upload' = [st |-> "sent", files |-> fs, answers |-> <<>>]
  /\ alert' = ""
  /\ UNCHANGED <<moreVars, panelVars, backendVars, embedReqs, histReqs, metaReqs, delReqs, docId,
                 currentPage, showHistoryModal, loadingHistory, uploadedFiles,
                 embeddingInProgress, figures, showFigures>>

\* The engine serves upload-pdf (one file) or upload-and-embed (several)
BackendUpload ==
  /\ upload.st = "sent"
  /\ IF Len(upload.files) = 1
     THEN LET d == identify(upload.files[1]) IN
          /\ status' = StoreUpload(status, d)
          /\ UNCHANGED <<tasks, embedded>>
          /\ upload' = [upload EXCEPT !.st = "done",
                          !.answers = <<[doc_id |-> d, result |-> "stored"]>>]
     ELSE LET r == BatchIngest(upload.files, status, tasks, <<>>) IN
          /\ status' = r.status
          /\ tasks' = r.tasks
          /\ embedded' = [d \in DocIds |->
               IF Len(r.tasks[d]) > Len(tasks[d]) THEN 0 ELSE embedded[d]]
          /\ upload' = [upload EXCEPT !.st = "done", !.answers = r.answers]
  /\ stored' = StoreFiles(stored, upload.files)
  /\ UNCHANGED <<moreVars, panelVars, index, embedReqs, histReqs, metaReqs, delReqs, appVars>>

BackendUploadFail ==
  /\ upload.st = "sent"
  /\ upload' = [upload EXCEPT !.st = "err"]
  /\ UNCHANGED <<moreVars, panelVars, backendVars, embedReqs, histReqs, metaReqs, delReqs, appVars>>

\* The panel's effect on [docId, initialMessages]: the messages become the
\* chat history App holds, or none without a document; the autosave effect
\* on [messages, docId] follows it
SyncMessages ==
  /\ messages' = IF docId' # NoDoc THEN chatHistory' ELSE <<>>
  /\ autosaveTimer' = (docId' # NoDoc /\ messages' # <<>>)

\* What the open and close handlers leave alone in the panel and the notebook
panelRest == <<refVars, loading, ragQuerying, input, abortControllerRef,
               agentReqs, topK, docNotes, docChat, genVars, saveReqs, noteVars>>

\* The response arrives: open the (first) document, refresh the history
handleFileUploadDone ==
  /\ upload.st = "done"
  /\ Room(2)
  /\ LET d == upload.answers[1].doc_id IN
     /\ docId' = d
     /\ currentPage' = 1
     /\ metaReqs' = LoadDocData(metaReqs, docId, d)
  /\ histReqs' = LoadHistoryFiles(histReqs)
  /\ loadingHistory' = TRUE
  /\ isUploading' = FALSE
  /\ upload' = IdleUpload
  /\ alert' = ""
  /\ UNCHANGED <<panelRest, notes, chatHistory, pdfUrl, backendVars, embedReqs,
                 delReqs, showHistoryModal, uploadedFiles, embeddingInProgress,
                 figures, showFigures, numPages>>
  /\ SyncMessages

handleFileUploadFailed ==
  /\ upload.st = "err"
  /\ alert' = "Upload failed"
  /\ isUploading' = FALSE
  /\ upload' = IdleUpload
  /\ UNCHANGED <<moreVars, panelVars, backendVars, embedReqs, histReqs, metaReqs, delReqs, docId,
                 currentPage, showHistoryModal, loadingHistory, uploadedFiles,
                 embeddingInProgress, figures, showFigures>>

(***************************************************************************)
(* The history modal and loadHistoryFiles                                  *)
(***************************************************************************)
OpenHistory ==
  /\ UploadBoxShown
  /\ Room(1)
  /\ showHistoryModal' = TRUE
  /\ histReqs' = LoadHistoryFiles(histReqs)
  /\ loadingHistory' = TRUE
  /\ alert' = ""
  /\ UNCHANGED <<moreVars, panelVars, backendVars, upload, embedReqs, metaReqs, delReqs, docId,
                 currentPage, isUploading, uploadedFiles, embeddingInProgress,
                 figures, showFigures>>

CloseHistory ==
  /\ showHistoryModal
  /\ showHistoryModal' = FALSE
  /\ alert' = ""
  /\ UNCHANGED <<moreVars, panelVars, backendVars, netVars, docId, currentPage, isUploading,
                 loadingHistory, uploadedFiles, embeddingInProgress, figures,
                 showFigures>>

\* The engine lists the Documents it holds, with their embedding_status
BackendHistory(i) ==
  /\ histReqs[i].st = "sent"
  /\ histReqs' = [histReqs EXCEPT ![i] = [st |-> "ok", snap |-> status]]
  /\ UNCHANGED <<moreVars, panelVars, backendVars, upload, embedReqs, metaReqs, delReqs, appVars>>

BackendHistoryFail(i) ==
  /\ histReqs[i].st = "sent"
  /\ histReqs' = [histReqs EXCEPT ![i].st = "err"]
  /\ UNCHANGED <<moreVars, panelVars, backendVars, upload, embedReqs, metaReqs, delReqs, appVars>>

loadHistoryFilesDone(i) ==
  /\ histReqs[i].st \in {"ok", "err"}
  /\ IF histReqs[i].st = "ok"
     THEN uploadedFiles' = histReqs[i].snap /\ alert' = ""
     ELSE uploadedFiles' = uploadedFiles /\ alert' = "Failed to load history files"
  /\ loadingHistory' = FALSE
  /\ histReqs' = RemoveAt(histReqs, i)
  /\ UNCHANGED <<moreVars, panelVars, backendVars, upload, embedReqs, metaReqs, delReqs, docId,
                 currentPage, isUploading, showHistoryModal,
                 embeddingInProgress, figures, showFigures>>

handleSelectHistoryFile(d) ==
  /\ ListShown
  /\ Listed(d)
  /\ Room(2)
  /\ showHistoryModal' = FALSE
  /\ docId' = d
  /\ currentPage' = 1
  /\ metaReqs' = LoadDocData(metaReqs, docId, d)
  /\ alert' = ""
  /\ UNCHANGED <<panelRest, notes, chatHistory, pdfUrl, backendVars, upload,
                 embedReqs, histReqs, delReqs, isUploading, loadingHistory,
                 uploadedFiles, embeddingInProgress, figures, showFigures,
                 numPages>>
  /\ SyncMessages

handleCloseDocument ==
  /\ docId # NoDoc
  /\ docId' = NoDoc
  /\ pdfUrl' = NoDoc
  /\ notes' = <<>>
  /\ chatHistory' = <<>>
  /\ currentPage' = 1
  /\ numPages' = 0
  /\ alert' = ""
  /\ UNCHANGED <<panelRest, backendVars, netVars, isUploading, showHistoryModal,
                 loadingHistory, uploadedFiles, embeddingInProgress, figures,
                 showFigures>>
  /\ SyncMessages

\* getPdfUrl(id): the URL is the document's id
getPdfUrl(id) == id

\* loadDocData(id) after its await: the answer for id sets the notes, the
\* chat history and the PDF whatever docId is by then
loadDocDataDone(i) ==
  /\ i \in DOMAIN metaReqs
  /\ notes' = docNotes[metaReqs[i]]
  /\ chatHistory' = docChat[metaReqs[i]]
  /\ pdfUrl' = getPdfUrl(metaReqs[i])
  /\ figures' = <<>>
  /\ showFigures' = FALSE
  /\ metaReqs' = RemoveAt(metaReqs, i)
  /\ alert' = ""
  /\ UNCHANGED <<panelRest, backendVars, upload, embedReqs, histReqs, delReqs,
                 docId, currentPage, isUploading, showHistoryModal,
                 loadingHistory, uploadedFiles, embeddingInProgress, numPages>>
  /\ SyncMessages

loadDocDataFailed(i) ==
  /\ i \in DOMAIN metaReqs
  /\ metaReqs' = RemoveAt(metaReqs, i)
  /\ alert' = ""
  /\ UNCHANGED <<moreVars, panelVars, backendVars, upload, embedReqs, histReqs, delReqs, docId,
                 currentPage, isUploading, showHistoryModal, loadingHistory,
                 uploadedFiles, embeddingInProgress, figures, showFigures>>


(***************************************************************************)
(* handleTriggerEmbedding and the embed endpoint                           *)
(***************************************************************************)
handleTriggerEmbedding(d) ==
  /\ ListShown
  /\ EmbedOffered(d)
  /\ EmbedEnabled(d)
  /\ Room(1)
  /\ embeddingInProgress' = [embeddingInProgress EXCEPT ![d] = TRUE]
  /\ embedReqs' = [embedReqs EXCEPT ![d] = Append(@, "sent")]
  /\ alert' = ""
  /\ UNCHANGED <<moreVars, panelVars, backendVars, upload, histReqs, metaReqs, delReqs, docId,
                 currentPage, isUploading, showHistoryModal, loadingHistory,
                 uploadedFiles, figures, showFigures>>

\* ingest(doc_id): start the task, or answer without ingesting
BackendEmbed(d, i) ==
  /\ i \in DOMAIN embedReqs[d]
  /\ embedReqs[d][i] = "sent"
  /\ IF status[d] = "absent"
     THEN /\ embedReqs' = [embedReqs EXCEPT ![d][i] = "error"]
          /\ UNCHANGED <<status, tasks, embedded>>
     ELSE IF MayIngest(status[d])
     THEN /\ status' = [status EXCEPT ![d] = "processing"]
          /\ tasks' = [tasks EXCEPT ![d] = Append(@, NewTask("embed"))]
          /\ embedded' = [embedded EXCEPT ![d] = 0]
          /\ embedReqs' = [embedReqs EXCEPT ![d][i] = "accepted"]
     ELSE /\ embedReqs' = [embedReqs EXCEPT ![d][i] = IngestAnswer(status[d])]
          /\ UNCHANGED <<status, tasks, embedded>>
  /\ UNCHANGED <<moreVars, panelVars, index, stored, upload, histReqs, metaReqs, delReqs, appVars>>

\* The request or its response is lost
BackendEmbedFail(d, i) ==
  /\ i \in DOMAIN embedReqs[d]
  /\ embedReqs[d][i] = "sent"
  /\ embedReqs' = [embedReqs EXCEPT ![d][i] = "error"]
  /\ UNCHANGED <<moreVars, panelVars, backendVars, upload, histReqs, metaReqs, delReqs, appVars>>

\* What a retrieval sees of a Document while a task embeds its next chunk:
\* staged embeddings are not in the index
IndexWhileEmbeddingPartial(d, t) == [index EXCEPT ![d] = t.progress + 1]
IndexWhileEmbedding(d, t) == index

\* The ingestion task embeds its next chunk
TaskEmbedChunk(d, i) ==
  /\ i \in DOMAIN tasks[d]
  /\ tasks[d][i].progress < NChunks(d)
  /\ tasks' = [tasks EXCEPT ![d][i].progress = @ + 1]
  /\ embedded' = [embedded EXCEPT ![d] = tasks[d][i].progress + 1]
  /\ index' = IndexWhileEmbedding(d, tasks[d][i])
  /\ UNCHANGED <<moreVars, panelVars, status, stored, netVars, appVars>>

\* The embedding provider fails: nothing is committed
TaskProviderFailure(d, i) ==
  /\ i \in DOMAIN tasks[d]
  /\ tasks[d][i].progress < NChunks(d)
  /\ tasks' = [tasks EXCEPT ![d] = RemoveAt(@, i)]
  /\ status' = [status EXCEPT ![d] = "failed"]
  /\ embedReqs' = Deliver(d, tasks[d][i], "failed")
  /\ UNCHANGED <<moreVars, panelVars, index, embedded, stored, upload, histReqs, metaReqs, delReqs,
                 appVars>>

\* All chunks are embedded: commit them together
TaskCommit(d, i) ==
  /\ i \in DOMAIN tasks[d]
  /\ tasks[d][i].progress = NChunks(d)
  /\ tasks' = [tasks EXCEPT ![d] = RemoveAt(@, i)]
  /\ index' = [index EXCEPT ![d] = tasks[d][i].progress]
  /\ status' = [status EXCEPT ![d] = "completed"]
  /\ embedReqs' = Deliver(d, tasks[d][i], "success")
  /\ UNCHANGED <<moreVars, panelVars, embedded, stored, upload, histReqs, metaReqs, delReqs, appVars>>

\* The requests of a document once request i has settled: the handler ends,
\* whatever the outcome
EmbedSettledRetry(reqs, i) ==
  IF reqs[i] \in {"failed", "error"}
  THEN [reqs EXCEPT ![i] = "sent"]
  ELSE RemoveAt(reqs, i)
EmbedSettled(reqs, i) == RemoveAt(reqs, i)

\* handleTriggerEmbedding after its await
handleTriggerEmbeddingDone(d, i) ==
  /\ i \in DOMAIN embedReqs[d]
  /\ embedReqs[d][i] \in {"success", "already_completed", "already_processing",
                          "failed", "error"}
  /\ IF embedReqs[d][i] = "error"
     THEN /\ alert' = "Error triggering embedding"
          /\ UNCHANGED <<histReqs, loadingHistory>>
     ELSE IF EmbedSucceeded(embedReqs[d][i])
     THEN /\ histReqs' = LoadHistoryFiles(histReqs)
          /\ loadingHistory' = TRUE
          /\ alert' = ""
     ELSE /\ alert' = "Embedding failed"
          /\ UNCHANGED <<histReqs, loadingHistory>>
  /\ embeddingInProgress' = [embeddingInProgress EXCEPT ![d] = FALSE]
  /\ embedReqs' = [embedReqs EXCEPT ![d] = EmbedSettled(@, i)]
  /\ UNCHANGED <<moreVars, panelVars, backendVars, upload, metaReqs, delReqs, docId, currentPage,
                 isUploading, showHistoryModal, uploadedFiles, figures,
                 showFigures>>

(***************************************************************************)
(* handleDeleteDocument and the delete endpoint                            *)
(***************************************************************************)
\* A deleteDocument request and the docId of the render whose handler sent it
NoDelete == [st |-> "idle", docId |-> NoDoc]

\* window.confirm, then handleDeleteDocument(id) up to its await
handleDeleteDocument(d, confirmed) ==
  /\ ListShown
  /\ Listed(d)
  /\ delReqs[d].st = "idle"
  /\ Room(1)
  /\ delReqs' = IF confirmed
                THEN [delReqs EXCEPT ![d] = [st |-> "sent", docId |-> docId]]
                ELSE delReqs
  /\ alert' = ""
  /\ UNCHANGED <<moreVars, panelVars, backendVars, upload, embedReqs, histReqs, metaReqs, docId,
                 currentPage, isUploading, showHistoryModal, loadingHistory,
                 uploadedFiles, embeddingInProgress, figures, showFigures>>

\* Deleting a Document removes its Chunks and cancels its ingestion
BackendDelete(d) ==
  /\ delReqs[d].st = "sent"
  /\ IF status[d] = "absent"
     THEN /\ delReqs' = [delReqs EXCEPT ![d].st = "err"]
          /\ UNCHANGED <<backendVars, embedReqs, docNotes, docChat>>
     ELSE /\ delReqs' = [delReqs EXCEPT ![d].st = "ok"]
          /\ status' = [status EXCEPT ![d] = "absent"]
          /\ index' = [index EXCEPT ![d] = 0]
          /\ embedded' = [embedded EXCEPT ![d] = 0]
          /\ stored' = [stored EXCEPT ![d] = 0]
          /\ tasks' = [tasks EXCEPT ![d] = <<>>]
          /\ docNotes' = [docNotes EXCEPT ![d] = <<>>]
          /\ docChat' = [docChat EXCEPT ![d] = <<>>]
          /\ embedReqs' = [embedReqs EXCEPT ![d] =
               [i \in DOMAIN @ |-> IF @[i] = "accepted" THEN "error" ELSE @[i]]]
  /\ UNCHANGED <<noteVars, numPages, notes, chatHistory, pdfUrl, genVars, saveVars, panelVars,
                 upload, histReqs, metaReqs, appVars>>

BackendDeleteFail(d) ==
  /\ delReqs[d].st = "sent"
  /\ delReqs' = [delReqs EXCEPT ![d].st = "err"]
  /\ UNCHANGED <<moreVars, panelVars, backendVars, upload, embedReqs, histReqs, metaReqs, appVars>>

\* The docId the continuation of handleDeleteDocument compares with id: the
\* one of the render in which Delete was clicked
DeleteSees(d) == delReqs[d].docId

\* handleDeleteDocument after its await
handleDeleteDocumentDone(d) ==
  /\ delReqs[d].st \in {"ok", "err"}
  /\ IF delReqs[d].st = "ok"
     THEN /\ IF DeleteSees(d) = d
             THEN /\ docId' = NoDoc
                  /\ pdfUrl' = NoDoc
                  /\ notes' = <<>>
                  /\ chatHistory' = <<>>
                  /\ numPages' = 0
                  /\ SyncMessages
             ELSE UNCHANGED <<docId, pdfUrl, notes, chatHistory, messages,
                              autosaveTimer, numPages>>
          /\ histReqs' = LoadHistoryFiles(histReqs)
          /\ loadingHistory' = TRUE
          /\ alert' = ""
     ELSE /\ alert' = "Failed to delete document"
          /\ UNCHANGED <<docId, pdfUrl, notes, chatHistory, messages,
                         autosaveTimer, histReqs, loadingHistory, numPages>>
  /\ delReqs' = [delReqs EXCEPT ![d] = NoDelete]
  /\ UNCHANGED <<panelRest, backendVars, upload, embedReqs, metaReqs,
                 currentPage, isUploading, showHistoryModal, uploadedFiles,
                 embeddingInProgress, figures, showFigures>>

(***************************************************************************)
(* SpecEmbed                                                               *)
(***************************************************************************)
InitEmbed ==
  /\ status = [d \in DocIds |-> "absent"]
  /\ index = [d \in DocIds |-> 0]
  /\ embedded = [d \in DocIds |-> 0]
  /\ stored = [d \in DocIds |-> 0]
  /\ tasks = [d \in DocIds |-> <<>>]
  /\ upload = IdleUpload
  /\ embedReqs = [d \in DocIds |-> <<>>]
  /\ histReqs = <<>>
  /\ metaReqs = <<>>
  /\ delReqs = [d \in DocIds |-> NoDelete]
  /\ docId = NoDoc
  /\ currentPage = 1
  /\ isUploading = FALSE
  /\ showHistoryModal = FALSE
  /\ loadingHistory = FALSE
  /\ uploadedFiles = [d \in DocIds |-> "absent"]
  /\ embeddingInProgress = [d \in DocIds |-> FALSE]
  /\ figures = <<>>
  /\ showFigures = FALSE
  /\ alert = ""
  /\ catalog = <<>>
  /\ figReqs = <<>>
  /\ resolveReqs = <<>>
  /\ loading = FALSE
  /\ ragQuerying = FALSE
  /\ messages = <<>>
  /\ input = ""
  /\ abortControllerRef = 0
  /\ agentReqs = <<>>
  /\ topK = 1
  /\ notes = <<>>
  /\ chatHistory = <<>>
  /\ pdfUrl = NoDoc
  /\ docNotes = [d \in DocIds |-> <<>>]
  /\ docChat = [d \in DocIds |-> <<>>]
  /\ isGeneratingSummary = FALSE
  /\ appAbortControllerRef = 0
  /\ genReqs = <<>>
  /\ autosaveTimer = FALSE
  /\ saveReqs = <<>>
  /\ noteReqs = <<>>
  /\ editor = NoEditor
  /\ numPages = 0

NextEmbed ==
  \/ \E fs \in FileSeqs : handleFileUpload(fs)
  \/ BackendUpload
  \/ BackendUploadFail
  \/ handleFileUploadDone
  \/ handleFileUploadFailed
  \/ OpenHistory
  \/ CloseHistory
  \/ \E i \in DOMAIN histReqs : BackendHistory(i)
  \/ \E i \in DOMAIN histReqs : BackendHistoryFail(i)
  \/ \E i \in DOMAIN histReqs : loadHistoryFilesDone(i)
  \/ \E d \in DocIds : handleSelectHistoryFile(d)
  \/ handleCloseDocument
  \/ \E i \in DOMAIN metaReqs : loadDocDataDone(i)
  \/ \E i \in DOMAIN metaReqs : loadDocDataFailed(i)
  \/ \E d \in DocIds : handleTriggerEmbedding(d)
  \/ \E d \in DocIds, i \in 1..MaxInFlight : BackendEmbed(d, i)
  \/ \E d \in DocIds, i \in 1..MaxInFlight : BackendEmbedFail(d, i)
  \/ \E d \in DocIds, i \in 1..MaxInFlight : TaskEmbedChunk(d, i)
  \/ \E d \in DocIds, i \in 1..MaxInFlight : TaskProviderFailure(d, i)
  \/ \E d \in DocIds, i \in 1..MaxInFlight : TaskCommit(d, i)
  \/ \E d \in DocIds, i \in 1..MaxInFlight : handleTriggerEmbeddingDone(d, i)
  \/ \E d \in DocIds : \E confirmed \in BOOLEAN :
       handleDeleteDocument(d, confirmed)
  \/ \E d \in DocIds : BackendDelete(d)
  \/ \E d \in DocIds : BackendDeleteFail(d)
  \/ \E d \in DocIds : handleDeleteDocumentDone(d)

SpecEmbed == InitEmbed /\ [][NextEmbed]_vars


(***************************************************************************)
(* Claims about ingestion, checked under SpecEmbed                         *)
(***************************************************************************)

\* C1: for every doc_id at most one ingestion task runs and at most one
\* embedDocument request is pending at any time: a further Embed trigger is
\* refused by the disabled button, and a re-upload of a document that is
\* being ingested is answered "already_processing" without a second task.
C1_OneIngestionPerDoc ==
  \A d \in DocIds : Len(tasks[d]) <= 1 /\ Len(embedReqs[d]) <= 1

\* An embed request is pending, its task runs, and a batch re-upload of the
\* same document was answered "already_processing".
C1_Witness ==
  \E d \in DocIds :
    /\ embedReqs[d] = <<"accepted">>
    /\ Len(tasks[d]) = 1
    /\ tasks[d][1].origin = "embed"
    /\ upload.st = "done"
    /\ Len(upload.files) > 1
    /\ \E i \in DOMAIN upload.answers :
         upload.answers[i] = [doc_id |-> d, result |-> "already_processing"]

\* C2: a retrieval sees, of every document and at every moment, none of its
\* chunks or all of them, and a completed document has as many persisted
\* chunks as embeddings were computed for it.
C2_AllOrNothing ==
  \A d \in DocIds :
    /\ VisibleChunks(d) \in {0, NChunks(d)}
    /\ status[d] = "completed" => VisibleChunks(d) = embedded[d]
    /\ status[d] = "completed" => VisibleChunks(d) = NChunks(d)

\* The provider failed after some, not all, chunks were embedded.
C2_Witness ==
  \E d \in DocIds :
    /\ status[d] = "failed"
    /\ embedded[d] > 0
    /\ embedded[d] < NChunks(d)
    /\ VisibleChunks(d) = 0

StatusEdges ==
  { <<"none", "processing">>, <<"processing", "completed">>,
    <<"processing", "failed">>, <<"failed", "processing">> }

\* C3: the embedding_status of a Document changes only along none ->
\* processing, processing -> completed, processing -> failed and failed ->
\* processing; an embedDocument request leaves only for a document the list
\* shows as neither completed nor processing, and an ingestion task starts
\* only for a document that is neither completed nor processing.
C3_StatusTransitions ==
  [][\A d \in DocIds :
       /\ (status[d] # "absent" /\ status'[d] # "absent"
             /\ status'[d] # status[d])
            => <<status[d], status'[d]>> \in StatusEdges
       /\ Len(embedReqs'[d]) > Len(embedReqs[d])
            => uploadedFiles[d] \in {"none", "failed"}
       /\ Len(tasks'[d]) > Len(tasks[d])
            => status[d] \notin {"completed", "processing"}
    ]_vars

\* A failed document is being ingested again after the user pressed Embed.
C3_Witness ==
  \E d \in DocIds :
    /\ uploadedFiles[d] = "failed"
    /\ embedReqs[d] = <<"accepted">>
    /\ status[d] = "processing"

\* C4: byte-identical uploads get the same doc_id (no two ids hold the same
\* bytes, and files with equal bytes in one response carry one id); an ingest
\* request for a completed document starts no task and changes nothing and
\* is answered already_completed, which handleTriggerEmbedding takes as a
\* success: the history is refreshed and no alert is raised.
C4_SameIdentity ==
  /\ \A d1, d2 \in DocIds :
       (stored[d1] # 0 /\ stored[d1] = stored[d2]) => d1 = d2
  /\ \A i, j \in DOMAIN upload.answers :
       upload.files[i].bytes = upload.files[j].bytes
         => upload.answers[i].doc_id = upload.answers[j].doc_id

C4_NoReingestion ==
  \A d \in DocIds :
    /\ \A i \in DOMAIN embedReqs[d] :
         (BackendEmbed(d, i) /\ status[d] = "completed")
           => /\ UNCHANGED backendVars
              /\ embedReqs'[d][i] = "already_completed"
    /\ (BackendUpload /\ status[d] = "completed")
         => /\ status'[d] = "completed"
            /\ tasks'[d] = tasks[d]
            /\ index'[d] = index[d]
            /\ embedded'[d] = embedded[d]
    /\ \A i \in DOMAIN embedReqs[d] :
         (handleTriggerEmbeddingDone(d, i)
            /\ embedReqs[d][i] = "already_completed")
           => /\ alert' = ""
              /\ histReqs' = LoadHistoryFiles(histReqs)
              /\ loadingHistory'
              /\ ~embeddingInProgress'[d]

C4_IdempotentIngest == []C4_SameIdentity /\ [][C4_NoReingestion]_vars

\* Both names of the same bytes were uploaded, and an Embed of the completed
\* document was answered already_completed.
C4_Witness ==
  \E d \in DocIds :
    /\ status[d] = "completed"
    /\ stored[d] # 0
    /\ "already_completed" \in Range(embedReqs[d])
    /\ uploadedFiles[d] # "completed"

(***************************************************************************)
(* Strings: the JavaScript string functions the reference handler uses     *)
(***************************************************************************)
UpperLetters == "ABCDEFGHIJKLMNOPQRSTUVWXYZ"
LowerLetters == "abcdefghijklmnopqrstuvwxyz"
Digits == {"0", "1", "2", "3", "4", "5", "6", "7", "8", "9"}

CharAt(s, i) == SubSeq(s, i, i)

LowerChar(c) ==
  IF \E i \in 1..Len(UpperLetters) : CharAt(UpperLetters, i) = c
  THEN CharAt(LowerLetters,
              CHOOSE i \in 1..Len(UpperLetters) : CharAt(UpperLetters, i) = c)
  ELSE c

\* String.prototype.toLowerCase
RECURSIVE toLowerCase(_)
toLowerCase(s) ==
  IF Len(s) = 0 THEN ""
  ELSE LowerChar(CharAt(s, 1)) \o toLowerCase(SubSeq(s, 2, Len(s)))

\* String.prototype.includes
includes(hay, needle) ==
  \E i \in 1..(Len(hay) - Len(needle) + 1) :
    SubSeq(hay, i, i + Len(needle) - 1) = needle

\* String.prototype.startsWith
startsWith(s, p) == Len(s) >= Len(p) /\ SubSeq(s, 1, Len(p)) = p

\* \s* from position i: the position of the first character that is no space
RECURSIVE SkipSpaces(_, _)
SkipSpaces(s, i) ==
  IF i <= Len(s) /\ CharAt(s, i) = " " THEN SkipSpaces(s, i + 1) ELSE i

\* \d+ from position i: the position after the last digit of the run
RECURSIVE DigitsEnd(_, _)
DigitsEnd(s, i) ==
  IF i <= Len(s) /\ CharAt(s, i) \in Digits THEN DigitsEnd(s, i + 1) ELSE i

NoMatch == [ok |-> FALSE, g1 |-> "", g2 |-> ""]

\* The alternatives of the group (Fig\.|Figure|Table), in the order tried
RefMarkers == <<"fig.", "figure", "table">>

\* /(Fig\.|Figure|Table)\s*(\d+)/i tried at position i with alternative a
MatchMarkerAt(s, i, a) ==
  LET m == RefMarkers[a]
      e == i + Len(m)
      j == SkipSpaces(s, e)
  IN IF e - 1 <= Len(s) /\ toLowerCase(SubSeq(s, i, e - 1)) = m
        /\ DigitsEnd(s, j) > j
     THEN [ok |-> TRUE, g1 |-> SubSeq(s, i, e - 1),
           g2 |-> SubSeq(s, j, DigitsEnd(s, j) - 1)]
     ELSE NoMatch

MatchAt(s, i) ==
  IF MatchMarkerAt(s, i, 1).ok THEN MatchMarkerAt(s, i, 1)
  ELSE IF MatchMarkerAt(s, i, 2).ok THEN MatchMarkerAt(s, i, 2)
  ELSE MatchMarkerAt(s, i, 3)

\* refText.match(/(Fig\.|Figure|Table)\s*(\d+)/i): the leftmost match
figMatch(refText) ==
  LET at == { i \in 1..Len(refText) : MatchAt(refText, i).ok }
  IN IF at = {} THEN NoMatch
     ELSE MatchAt(refText, CHOOSE i \in at : \A k \in at : i <= k)

(***************************************************************************)
(* Figure catalog and references                                           *)
(***************************************************************************)
\* figures a catalog can hold at most
MaxFigs == 2

\* The value of result.page when the answer carries no page
NoPage == 0

\* Figure entities the extractor can record for the open Document
FigPool ==
  { [caption |-> "Figure 1: Architecture", page |-> 4],
    [caption |-> "Fig. 2. Results", page |-> 5],
    [caption |-> "Table 2: Scores", page |-> 6] }

\* The catalog lists the Figures in page order
RECURSIVE ByPage(_)
ByPage(S) ==
  IF S = {} THEN <<>>
  ELSE LET f == CHOOSE x \in S : \A y \in S : x.page <= y.page
       IN <<f>> \o ByPage(S \ {f})

Catalogs == { ByPage(S) : S \in { T \in SUBSET FigPool : Cardinality(T) <= MaxFigs } }

\* The link texts renderContentWithRefs puts into the messages
RefTexts == {"Fig. 1", "Table 2", "Section 2", "Eq. 1"}

\* Section headings of the open Document: "Section 2" starts on page 2
SectionPage(refText) == IF refText = "Section 2" THEN 2 ELSE NoPage

\* The type word the handler derives from the matched marker
RefType(g1) == IF startsWith(toLowerCase(g1), "t") THEN "Table" ELSE "Figure"

\* The callback of figures.find
CaptionFound(f, type, num) ==
  LET cap == toLowerCase(f.caption)
  IN includes(cap, toLowerCase(type) \o " " \o num)
     \/ includes(cap, "fig. " \o num)

\* figures.find(...): the index of the first Figure accepted, 0 for undefined
targetFig(refText, figs) ==
  LET fm == figMatch(refText)
      hits == IF fm.ok /\ Len(figs) > 0
              THEN { i \in DOMAIN figs : CaptionFound(figs[i], RefType(fm.g1), fm.g2) }
              ELSE {}
  IN IF hits = {} THEN 0 ELSE CHOOSE i \in hits : \A k \in hits : i <= k

\* Normalized type+number of a reference or a caption
NormalizedRef(text) ==
  LET fm == figMatch(text)
  IN IF fm.ok THEN [type |-> toLowerCase(RefType(fm.g1)), num |-> fm.g2]
     ELSE [type |-> "", num |-> ""]

\* Catalog Figures with the same type and number as the reference
SameTypeAndNumber(refText, figs) ==
  { i \in DOMAIN figs :
      /\ figMatch(refText).ok
      /\ NormalizedRef(figs[i].caption) = NormalizedRef(refText) }

\* resolve(doc_id, ref_text): Figure catalog first, then the section index
resolve(refText, cat) ==
  LET m == SameTypeAndNumber(refText, cat)
  IN IF m # {} THEN cat[CHOOSE i \in m : \A k \in m : i <= k].page
     ELSE SectionPage(refText)

\* The functions above over the link texts and catalogs of the model, as
\* tables: refText.match(...) succeeded, figures.find(...), the Figures of
\* the same type and number, resolve
figMatched == [r \in RefTexts |-> figMatch(r).ok]
targetFigIn == [r \in RefTexts |-> [figs \in Catalogs |-> targetFig(r, figs)]]
SameTypeAndNumberIn ==
  [r \in RefTexts |-> [figs \in Catalogs |-> SameTypeAndNumber(r, figs)]]
resolveIn == [r \in RefTexts |-> [cat \in Catalogs |-> resolve(r, cat)]]

\* ---- the figure gallery: handleLoadFigures ----
handleLoadFigures ==
  /\ docId # NoDoc
  /\ ~isGeneratingSummary
  /\ Room(1)
  /\ figReqs' = Append(figReqs, [st |-> "sent", figs |-> <<>>, doc |-> docId])
  /\ alert' = ""
  /\ UNCHANGED <<moreVars, backendVars, netVars, docId, currentPage, isUploading,
                 showHistoryModal, loadingHistory, uploadedFiles,
                 embeddingInProgress, figures, showFigures, catalog,
                 resolveReqs, agentVars>>

\* The catalog the engine holds for a Document: h2 is a paper without figures
CatalogOf(d) == IF d = "h1" THEN catalog ELSE <<>>

\* listFigures(doc_id): the Document's catalog
BackendFigures(i) ==
  /\ figReqs[i].st = "sent"
  /\ figReqs' = [figReqs EXCEPT ![i].st = "ok",
                                ![i].figs = CatalogOf(figReqs[i].doc)]
  /\ UNCHANGED <<moreVars, backendVars, netVars, appVars, catalog, resolveReqs, agentVars>>

BackendFiguresFail(i) ==
  /\ figReqs[i].st = "sent"
  /\ figReqs' = [figReqs EXCEPT ![i].st = "error"]
  /\ UNCHANGED <<moreVars, backendVars, netVars, appVars, catalog, resolveReqs, agentVars>>

handleLoadFiguresDone(i) ==
  /\ figReqs[i].st = "ok"
  /\ figures' = figReqs[i].figs
  /\ showFigures' = TRUE
  /\ figReqs' = RemoveAt(figReqs, i)
  /\ alert' = ""
  /\ UNCHANGED <<moreVars, backendVars, netVars, docId, currentPage, isUploading,
                 showHistoryModal, loadingHistory, uploadedFiles,
                 embeddingInProgress, catalog, resolveReqs, agentVars>>

handleLoadFiguresFailed(i) ==
  /\ figReqs[i].st = "error"
  /\ figReqs' = RemoveAt(figReqs, i)
  /\ alert' = ""
  /\ UNCHANGED <<moreVars, backendVars, netVars, docId, currentPage, isUploading,
                 showHistoryModal, loadingHistory, uploadedFiles,
                 embeddingInProgress, figures, showFigures, catalog,
                 resolveReqs, agentVars>>

\* ---- a click on a reference link: handleReferenceClick ----
\* Step 2 of the handler runs unless step 1 returned after navigating
FallbackAlso(t) == TRUE
ReachesFallback(t) == t = 0

handleReferenceClick(refText) ==
  /\ docId # NoDoc
  /\ LET t == targetFigIn[refText][figures]
     IN /\ IF t # 0 THEN currentPage' = figures[t].page
           ELSE UNCHANGED currentPage
        /\ IF ReachesFallback(t)
           THEN /\ Room(1)
                /\ resolveReqs' =
                     Append(resolveReqs,
                            [ref |-> refText, st |-> "sent", page |-> NoPage])
           ELSE UNCHANGED resolveReqs
  /\ alert' = ""
  /\ UNCHANGED <<moreVars, backendVars, netVars, docId, isUploading, showHistoryModal,
                 loadingHistory, uploadedFiles, embeddingInProgress, figures,
                 showFigures, catalog, figReqs, agentVars>>

\* resolveReference: a page number, or NotFound as a body without a page
BackendResolve(i) ==
  /\ resolveReqs[i].st = "sent"
  /\ LET p == resolveIn[resolveReqs[i].ref][catalog]
     IN IF p # NoPage
        THEN resolveReqs' = [resolveReqs EXCEPT ![i].st = "ok", ![i].page = p]
        ELSE \E body \in {"null", "nopage"} :
               resolveReqs' = [resolveReqs EXCEPT ![i].st = body]
  /\ UNCHANGED <<moreVars, backendVars, netVars, appVars, catalog, figReqs, agentVars>>

BackendResolveFail(i) ==
  /\ resolveReqs[i].st = "sent"
  /\ resolveReqs' = [resolveReqs EXCEPT ![i].st = "error"]
  /\ UNCHANGED <<moreVars, backendVars, netVars, appVars, catalog, figReqs, agentVars>>

\* if (result && onPageChange): an object is truthy, null is not
ResultTruthy(st) == st \in {"ok", "nopage"}

handleReferenceClickDone(i) ==
  /\ resolveReqs[i].st # "sent"
  /\ IF ResultTruthy(resolveReqs[i].st)
     THEN currentPage' = resolveReqs[i].page
     ELSE UNCHANGED currentPage
  /\ resolveReqs' = RemoveAt(resolveReqs, i)
  /\ alert' = ""
  /\ UNCHANGED <<moreVars, backendVars, netVars, docId, isUploading, showHistoryModal,
                 loadingHistory, uploadedFiles, embeddingInProgress, figures,
                 showFigures, catalog, figReqs, agentVars>>

(***************************************************************************)
(* SpecRef: a.pdf is open, its catalog is any the extractor can produce    *)
(***************************************************************************)
InitRef ==
  /\ status = [d \in DocIds |-> IF d = "h1" THEN "none" ELSE "absent"]
  /\ index = [d \in DocIds |-> 0]
  /\ embedded = [d \in DocIds |-> 0]
  /\ stored = [d \in DocIds |-> IF d = "h1" THEN 1 ELSE 0]
  /\ tasks = [d \in DocIds |-> <<>>]
  /\ upload = IdleUpload
  /\ embedReqs = [d \in DocIds |-> <<>>]
  /\ histReqs = <<>>
  /\ metaReqs = <<>>
  /\ delReqs = [d \in DocIds |-> NoDelete]
  /\ docId = "h1"
  /\ currentPage = 1
  /\ isUploading = FALSE
  /\ showHistoryModal = FALSE
  /\ loadingHistory = FALSE
  /\ uploadedFiles = [d \in DocIds |-> "absent"]
  /\ embeddingInProgress = [d \in DocIds |-> FALSE]
  /\ figures = <<>>
  /\ showFigures = FALSE
  /\ alert = ""
  /\ catalog \in Catalogs
  /\ figReqs = <<>>
  /\ resolveReqs = <<>>
  /\ loading = FALSE
  /\ ragQuerying = FALSE
  /\ messages = <<>>
  /\ input = ""
  /\ abortControllerRef = 0
  /\ agentReqs = <<>>
  /\ topK = 1
  /\ notes = <<>>
  /\ chatHistory = <<>>
  /\ pdfUrl = NoDoc
  /\ docNotes = [d \in DocIds |-> <<>>]
  /\ docChat = [d \in DocIds |-> <<>>]
  /\ isGeneratingSummary = FALSE
  /\ appAbortControllerRef = 0
  /\ genReqs = <<>>
  /\ autosaveTimer = FALSE
  /\ saveReqs = <<>>
  /\ noteReqs = <<>>
  /\ editor = NoEditor
  /\ numPages = 0

NextRef ==
  \/ handleLoadFigures
  \/ \E i \in DOMAIN figReqs : BackendFigures(i)
  \/ \E i \in DOMAIN figReqs : BackendFiguresFail(i)
  \/ \E i \in DOMAIN figReqs : handleLoadFiguresDone(i)
  \/ \E i \in DOMAIN figReqs : handleLoadFiguresFailed(i)
  \/ \E r \in RefTexts : handleReferenceClick(r)
  \/ \E i \in DOMAIN resolveReqs : BackendResolve(i)
  \/ \E i \in DOMAIN resolveReqs : BackendResolveFail(i)
  \/ \E i \in DOMAIN resolveReqs : handleReferenceClickDone(i)

SpecRef == InitRef /\ [][NextRef]_vars

\* C7: a click on a Figure/Table reference with a catalog loaded navigates to
\* the page of a catalog Figure with the same type and number when one
\* exists, and to no catalog Figure's page when none exists.
C7_CatalogNavigation ==
  [][\A r \in RefTexts :
       (handleReferenceClick(r) /\ figMatched[r] /\ Len(figures) > 0)
         => LET m == SameTypeAndNumberIn[r][figures]
            IN IF m # {}
               THEN currentPage' \in { figures[i].page : i \in m }
               ELSE currentPage' = currentPage]_vars

\* C8: the catalog is consulted first; the backend request is sent exactly
\* when the catalog lookup finds no Figure, never for a reference that has a
\* catalog Figure of its type and number, and always for Section / Eq.
C8_CatalogFirst ==
  [][\A r \in RefTexts :
       handleReferenceClick(r)
         => /\ targetFigIn[r][figures] # 0
                 => /\ resolveReqs' = resolveReqs
                    /\ currentPage' = figures[targetFigIn[r][figures]].page
            /\ targetFigIn[r][figures] = 0
                 => /\ Len(resolveReqs') = Len(resolveReqs) + 1
                    /\ resolveReqs'[Len(resolveReqs')].ref = r
                    /\ resolveReqs'[Len(resolveReqs')].st = "sent"
                    /\ currentPage' = currentPage
            /\ SameTypeAndNumberIn[r][figures] # {} => resolveReqs' = resolveReqs
            /\ ~figMatched[r] => Len(resolveReqs') = Len(resolveReqs) + 1]_vars

C8_Witness ==
  /\ figures # <<>>
  /\ currentPage = 4
  /\ \E i \in DOMAIN resolveReqs : resolveReqs[i].ref = "Section 2"
  /\ \A i \in DOMAIN resolveReqs : resolveReqs[i].ref # "Fig. 1"

\* C9: a reference that cannot be resolved (NotFound, an answer without a
\* page, a failed request) leaves the current page unchanged and raises no
\* error.
C9_UnresolvedLeavesPage ==
  [][\A i \in DOMAIN resolveReqs :
       (handleReferenceClickDone(i) /\ resolveReqs[i].st \in {"null", "nopage", "error"})
         => currentPage' = currentPage /\ alert' = ""]_vars

(***************************************************************************)
(* The Retrieval Ranker, modelled from the specification                   *)
(***************************************************************************)
\* largest top_k the rag-query endpoint is configured with
MaxTopK == 3

\* The Chunks a cross-document retrieval ranks: those of completed Documents
Candidates ==
  { c \in [doc : DocIds, k : 1..MaxChunks] :
      status[c.doc] = "completed" /\ c.k <= index[c.doc] }

\* Similarity of a Chunk to the question (in tenths), its page and offset
Score(c) == IF c.doc = "h1" /\ c.k > 1 THEN 5 ELSE 9
ChunkPage(c) == IF c.doc = "h1" THEN c.k + 1 ELSE 1
ChunkOffset(c) == IF c.doc = "h1" THEN 0 ELSE 10 * c.k

\* c ranks before e: higher similarity, then earlier page, then earlier offset
RanksBefore(c, e) ==
  \/ Score(c) > Score(e)
  \/ Score(c) = Score(e) /\ ChunkPage(c) < ChunkPage(e)
  \/ /\ Score(c) = Score(e)
     /\ ChunkPage(c) = ChunkPage(e)
     /\ ChunkOffset(c) < ChunkOffset(e)

RetrievalResult(c) ==
  [doc_id |-> c.doc, chunk |-> c.k, similarity_score |-> Score(c),
   page |-> ChunkPage(c), offset |-> ChunkOffset(c)]

RECURSIVE Ranked(_)
Ranked(S) ==
  IF S = {} THEN <<>>
  ELSE LET best == CHOOSE c \in S : \A e \in S \ {c} : ~RanksBefore(e, c)
       IN <<RetrievalResult(best)>> \o Ranked(S \ {best})

Take(s, n) == SubSeq(s, 1, IF Len(s) < n THEN Len(s) ELSE n)

\* retrieve(query_text, top_k) over every completed Document
retrieve(k) == Take(Ranked(Candidates), k)

(***************************************************************************)
(* The Agent panel                                                         *)
(***************************************************************************)
\* messages the panel can hold in the model
MaxMsgs == 4

\* What the textarea can hold: nothing, blanks, a question
Inputs == {"", " ", "q"}

\* String.prototype.trim
RECURSIVE trim(_)
trim(s) ==
  IF Len(s) = 0 THEN ""
  ELSE IF CharAt(s, 1) = " " THEN trim(SubSeq(s, 2, Len(s)))
  ELSE IF CharAt(s, Len(s)) = " " THEN trim(SubSeq(s, 1, Len(s) - 1))
  ELSE s

NoCard == [id |-> NoId, title |-> "", chunks |-> <<>>]

\* The ids of the cards and notes the client or the engine holds
UsedIds ==
  { notes[i].id : i \in DOMAIN notes }
  \cup UNION { { docNotes[d][i].id : i \in DOMAIN docNotes[d] } : d \in DocIds }
  \cup UNION { { genReqs[i].notes[j].id : j \in DOMAIN genReqs[i].notes } :
               i \in DOMAIN genReqs }
  \cup { genReqs[i].note.id : i \in DOMAIN genReqs }
  \cup { noteReqs[i].note.id : i \in DOMAIN noteReqs }
  \cup { editor.selectedNote.id }
  \cup { messages[i].card.id : i \in DOMAIN messages }
  \cup { chatHistory[i].card.id : i \in DOMAIN chatHistory }
  \cup UNION { { docChat[d][i].card.id : i \in DOMAIN docChat[d] } : d \in DocIds }

\* Date.now() and Math.random() in an id, and the ids the engine gives its
\* cards: an id nothing else holds
NewId(prefix) ==
  LET used == { id[2] : id \in { u \in UsedIds : u[1] = prefix } }
  IN  <<prefix, CHOOSE n \in 1..(Cardinality(used) + 1) :
                  /\ n \notin used
                  /\ \A k \in 1..(n - 1) : k \in used>>

\* A card the client builds with an id of its own
WithId(msg, prefix) ==
  IF msg.card = NoCard THEN msg ELSE [msg EXCEPT !.card.id = NewId(prefix)]
\* A message of the conversation; doc is the document it was produced for
Message(role, content, card) ==
  [role |-> role, content |-> content, card |-> card, doc |-> docId]

\* The reply to a request that was sent for document d
From(msg, d) == [msg EXCEPT !.doc = d]

\* The effect on [messages, docId]: it clears the pending timer and, with a
\* document open and a message to save, starts a new one
AutosaveEffect ==
  autosaveTimer' = IF messages' # messages \/ docId' # docId
                   THEN docId' # NoDoc /\ messages' # <<>>
                   ELSE autosaveTimer


UserMessage(text) == Message("user", text, NoCard)
StoppedMessage == Message("system", "Generation stopped by user.", NoCard)
ErrorMessage == Message("assistant", "Error: Network Error", NoCard)
RagErrorMessage == Message("assistant", "RAG query error: Network Error", NoCard)
CardMessage(title) ==
  Message("assistant", "", [id |-> NoId, title |-> title, chunks |-> <<>>])
GuideMessage == Message("assistant", "Based on page 1, here are some critical questions to guide your reading:", NoCard)
FigureFailedMessage == Message("assistant", "Figure analysis failed", NoCard)

\* response.context_chunks || []
contextChunksReversed(chunks) == [i \in 1..Len(chunks) |-> chunks[Len(chunks) + 1 - i]]
contextChunks(chunks) == chunks

\* The message handleRagQuery appends for a response
RagResultMessageStrict(chunks) ==
  IF chunks = <<>> THEN RagErrorMessage
  ELSE Message("assistant", "",
               [id |-> NoId, title |-> "RAG Query Result", chunks |-> chunks])
RagResultMessage(chunks) ==
  Message("assistant", "",
          [id |-> NoId, title |-> "RAG Query Result",
           chunks |-> contextChunks(chunks)])

\* The fragments the Retrieved Context view lists for a card: chunks.forEach
Fragments(card) ==
  [idx \in 1..Len(card.chunks) |->
     [n |-> idx, doc_id |-> card.chunks[idx].doc_id,
      similarity_score |-> card.chunks[idx].similarity_score,
      chunk |-> card.chunks[idx].chunk]]

\* fig.caption.match(/Fig(?:ure)?\.?\s*(\d+)/i): the number, "" if no match
FigNumberAt(s, i) ==
  LET word == IF i + 5 <= Len(s) /\ toLowerCase(SubSeq(s, i, i + 5)) = "figure"
              THEN 6
              ELSE IF i + 2 <= Len(s) /\ toLowerCase(SubSeq(s, i, i + 2)) = "fig"
              THEN 3 ELSE 0
      dot == IF i + word <= Len(s) /\ CharAt(s, i + word) = "." THEN 1 ELSE 0
      j == SkipSpaces(s, i + word + dot)
  IN IF word > 0 /\ DigitsEnd(s, j) > j THEN SubSeq(s, j, DigitsEnd(s, j) - 1)
     ELSE ""

FigNumber(s) ==
  LET at == { i \in 1..Len(s) : FigNumberAt(s, i) # "" }
  IN IF at = {} THEN "" ELSE FigNumberAt(s, CHOOSE i \in at : \A k \in at : i <= k)

figTitle(fig) ==
  IF FigNumber(fig.caption) # ""
  THEN "Fig. " \o FigNumber(fig.caption) \o " Analysis"
  ELSE "Figure Analysis"

figTitleOf == [f \in FigPool |-> figTitle(f)]

AgentKinds == {"chat", "task", "reading", "rag", "figure"}

\* new AbortController(): an id no request in flight holds
NewController ==
  CHOOSE c \in 1..MaxInFlight :
    /\ \A i \in DOMAIN agentReqs : agentReqs[i].ctl # c
    /\ \A b \in 1..(c - 1) : \E i \in DOMAIN agentReqs : agentReqs[i].ctl = b

NoFig == [caption |-> "", page |-> NoPage]

AgentRequest(kind, ctl, fig) ==
  [kind |-> kind, ctl |-> ctl, st |-> "sent", chunks |-> <<>>, fig |-> fig,
   doc |-> docId, history |-> <<>>]

\* The model can hold one more request and the messages it can bring
AgentRoom == Room(1) /\ Len(messages) + Len(agentReqs) + 2 <= MaxMsgs

\* ---- the textarea ----
setInput(text) ==
  /\ ~(loading \/ ragQuerying)
  /\ text # input
  /\ input' = text
  /\ alert' = ""
  /\ UNCHANGED <<moreVars, backendVars, netVars, docId, currentPage, isUploading,
                 showHistoryModal, loadingHistory, uploadedFiles,
                 embeddingInProgress, figures, showFigures, refVars, loading,
                 ragQuerying, messages, abortControllerRef, agentReqs, topK>>

\* ---- Send ----
\* messages.filter(m => m.content).map(m => ({ role, content }))
RECURSIVE historyUnfiltered(_)
historyUnfiltered(msgs) ==
  IF msgs = <<>> THEN <<>>
  ELSE LET m == msgs[Len(msgs)]
       IN Append(historyUnfiltered(SubSeq(msgs, 1, Len(msgs) - 1)),
                 [role |-> m.role, content |-> m.content])
RECURSIVE history(_)
history(msgs) ==
  IF msgs = <<>> THEN <<>>
  ELSE LET m == msgs[Len(msgs)]
           front == history(SubSeq(msgs, 1, Len(msgs) - 1))
       IN IF m.content # ""
          THEN Append(front, [role |-> m.role, content |-> m.content])
          ELSE front

\* The first line of handleSend returns
SendReturns == trim(input) = "" \/ docId = NoDoc \/ loading

handleSend ==
  /\ IF SendReturns
     THEN UNCHANGED <<messages, input, loading, abortControllerRef, agentReqs>>
     ELSE /\ AgentRoom
          /\ messages' = Append(messages, UserMessage(input))
          /\ input' = ""
          /\ loading' = TRUE
          /\ abortControllerRef' = NewController
          /\ agentReqs' = Append(agentReqs,
               [AgentRequest("chat", NewController, NoFig)
                  EXCEPT !.history = history(messages)])
  /\ alert' = ""
  /\ UNCHANGED <<noteVars, numPages, docVars, genVars, saveReqs, backendVars, netVars, docId, currentPage, isUploading,
                 showHistoryModal, loadingHistory, uploadedFiles,
                 embeddingInProgress, figures, showFigures, refVars,
                 ragQuerying, topK>>
  /\ AutosaveEffect

\* ---- a quick action ----

handleTask ==
  /\ docId # NoDoc
  /\ ~loading
  /\ AgentRoom
  /\ messages' = Append(messages, UserMessage("Please summarize"))
  /\ loading' = TRUE
  /\ abortControllerRef' = NewController
  /\ agentReqs' = Append(agentReqs, AgentRequest("task", NewController, NoFig))
  /\ alert' = ""
  /\ UNCHANGED <<noteVars, numPages, docVars, genVars, saveReqs, backendVars, netVars, docId, currentPage, isUploading,
                 showHistoryModal, loadingHistory, uploadedFiles,
                 embeddingInProgress, figures, showFigures, refVars,
                 ragQuerying, input, topK>>
  /\ AutosaveEffect

\* ---- Reading Guide ----

handleActiveReading ==
  /\ ~(docId = NoDoc \/ loading)
  /\ AgentRoom
  /\ loading' = TRUE
  /\ abortControllerRef' = NewController
  /\ agentReqs' = Append(agentReqs, AgentRequest("reading", NewController, NoFig))
  /\ alert' = ""
  /\ UNCHANGED <<moreVars, backendVars, netVars, docId, currentPage, isUploading,
                 showHistoryModal, loadingHistory, uploadedFiles,
                 embeddingInProgress, figures, showFigures, refVars,
                 ragQuerying, messages, input, topK>>

\* A click on a question of a reading guide puts it into the textarea
setInputFromCard ==
  /\ GuideMessage \in Range(messages)
  /\ input # "q"
  /\ input' = "q"
  /\ alert' = ""
  /\ UNCHANGED <<moreVars, backendVars, netVars, docId, currentPage, isUploading,
                 showHistoryModal, loadingHistory, uploadedFiles,
                 embeddingInProgress, figures, showFigures, refVars, loading,
                 ragQuerying, messages, abortControllerRef, agentReqs, topK>>

\* ---- the RAG button ----
\* The open Document is listed and not embedded: window.confirm is shown
NeedsConfirm ==
  docId # NoDoc /\ uploadedFiles[docId] \notin {"absent", "completed"}

handleRagQuery(proceed) ==
  /\ ~ragQuerying
  /\ trim(input) # ""
  /\ AgentRoom
  /\ IF NeedsConfirm /\ ~proceed
     THEN UNCHANGED <<ragQuerying, abortControllerRef, messages, input, agentReqs>>
     ELSE /\ ragQuerying' = TRUE
          /\ abortControllerRef' = NewController
          /\ messages' = Append(messages, UserMessage(input))
          /\ input' = ""
          /\ agentReqs' = Append(agentReqs, AgentRequest("rag", NewController, NoFig))
  /\ alert' = ""
  /\ UNCHANGED <<noteVars, numPages, docVars, genVars, saveReqs, backendVars, netVars, docId, currentPage, isUploading,
                 showHistoryModal, loadingHistory, uploadedFiles,
                 embeddingInProgress, figures, showFigures, refVars, loading,
                 topK>>
  /\ AutosaveEffect

\* ---- a figure of the gallery is chosen for analysis ----

handleFigureClick(f) ==
  /\ showFigures
  /\ docId # NoDoc
  /\ f \in DOMAIN figures
  /\ AgentRoom
  /\ showFigures' = FALSE
  /\ loading' = TRUE
  /\ agentReqs' = Append(agentReqs, AgentRequest("figure", 0, figures[f]))
  /\ alert' = ""
  /\ UNCHANGED <<moreVars, backendVars, netVars, docId, currentPage, isUploading,
                 showHistoryModal, loadingHistory, uploadedFiles,
                 embeddingInProgress, figures, refVars, ragQuerying, messages,
                 input, abortControllerRef, topK>>

\* ---- the engine and the agent answer ----
BackendAgent(i) ==
  /\ agentReqs[i].st = "sent"
  /\ agentReqs[i].kind # "rag"
  /\ \E answer \in IF agentReqs[i].kind = "figure" THEN {"ok", "analysis_error"}
                   ELSE {"ok"} :
       agentReqs' = [agentReqs EXCEPT ![i].st = answer]
  /\ UNCHANGED <<moreVars, backendVars, netVars, appVars, refVars, loading, ragQuerying,
                 messages, input, abortControllerRef, topK>>

BackendRag(i) ==
  /\ agentReqs[i].st = "sent"
  /\ agentReqs[i].kind = "rag"
  /\ agentReqs' = [agentReqs EXCEPT ![i].st = "ok", ![i].chunks = retrieve(topK)]
  /\ UNCHANGED <<moreVars, backendVars, netVars, appVars, refVars, loading, ragQuerying,
                 messages, input, abortControllerRef, topK>>

BackendAgentFail(i) ==
  /\ agentReqs[i].st = "sent"
  /\ agentReqs' = [agentReqs EXCEPT ![i].st = "error"]
  /\ UNCHANGED <<moreVars, backendVars, netVars, appVars, refVars, loading, ragQuerying,
                 messages, input, abortControllerRef, topK>>

\* ---- the handlers continue when their request settles ----
\* axios.isCancel(err): the request was aborted
IsCancelNever(err) == FALSE
IsCancel(err) == err = "cancelled"

\* The catch branch of handleSend, handleTask, handleActiveReading and
\* handleRagQuery: the messages after a request of that kind was rejected
CaughtSilently(msgs, kind, err) == msgs
Caught(msgs, kind, err) ==
  IF IsCancel(err) THEN msgs
  ELSE Append(msgs, IF kind = "rag" THEN RagErrorMessage ELSE ErrorMessage)

\* try / catch / finally of handleSend, handleTask and handleActiveReading
Settle(i, reply) ==
  /\ agentReqs[i].st # "sent"
  /\ messages' =
       IF agentReqs[i].st = "ok"
       THEN Append(messages, From(reply, agentReqs[i].doc))
       ELSE Caught(messages, agentReqs[i].kind, agentReqs[i].st)
  /\ loading' = FALSE
  /\ abortControllerRef' = 0
  /\ agentReqs' = RemoveAt(agentReqs, i)
  /\ alert' = ""
  /\ UNCHANGED <<noteVars, numPages, docVars, genVars, saveReqs, backendVars, netVars, docId, currentPage, isUploading,
                 showHistoryModal, loadingHistory, uploadedFiles,
                 embeddingInProgress, figures, showFigures, refVars,
                 ragQuerying, input, topK>>
  /\ AutosaveEffect

handleSendDone(i) ==
  agentReqs[i].kind = "chat" /\ Settle(i, CardMessage("Answer"))

handleTaskDone(i) ==
  agentReqs[i].kind = "task" /\ Settle(i, CardMessage("Summary"))

handleActiveReadingDone(i) ==
  agentReqs[i].kind = "reading" /\ Settle(i, GuideMessage)

handleRagQueryDone(i) ==
  /\ agentReqs[i].kind = "rag"
  /\ agentReqs[i].st # "sent"
  /\ messages' =
       IF agentReqs[i].st = "ok"
       THEN Append(messages,
                   From(WithId(RagResultMessage(agentReqs[i].chunks), "rag-"),
                        agentReqs[i].doc))
       ELSE Caught(messages, agentReqs[i].kind, agentReqs[i].st)
  /\ ragQuerying' = FALSE
  /\ abortControllerRef' = 0
  /\ agentReqs' = RemoveAt(agentReqs, i)
  /\ alert' = ""
  /\ UNCHANGED <<noteVars, numPages, docVars, genVars, saveReqs, backendVars, netVars, docId, currentPage, isUploading,
                 showHistoryModal, loadingHistory, uploadedFiles,
                 embeddingInProgress, figures, showFigures, refVars, loading,
                 input, topK>>
  /\ AutosaveEffect

handleFigureClickDone(i) ==
  /\ agentReqs[i].kind = "figure"
  /\ agentReqs[i].st # "sent"
  /\ messages' =
       IF agentReqs[i].st = "ok"
       THEN Append(messages,
                   From(WithId(CardMessage(figTitleOf[agentReqs[i].fig]),
                               "fig-analysis-"),
                        agentReqs[i].doc))
       ELSE IF agentReqs[i].st = "analysis_error"
       THEN Append(messages, FigureFailedMessage)
       ELSE messages
  /\ loading' = FALSE
  /\ agentReqs' = RemoveAt(agentReqs, i)
  /\ alert' = ""
  /\ UNCHANGED <<noteVars, numPages, docVars, genVars, saveReqs, backendVars, netVars, docId, currentPage, isUploading,
                 showHistoryModal, loadingHistory, uploadedFiles,
                 embeddingInProgress, figures, showFigures, refVars,
                 ragQuerying, input, abortControllerRef, topK>>
  /\ AutosaveEffect

\* ---- Stop ----
\* The requests that carry the signal of controller ctl

Signalled(reqs, ctl) == { i \in DOMAIN reqs : ctl # 0 /\ reqs[i].ctl = ctl }

\* The sequence reqs without the elements at the positions in S
RECURSIVE Without(_, _)
Without(reqs, S) ==
  IF reqs = <<>> THEN <<>>
  ELSE LET n == Len(reqs)
           front == Without(SubSeq(reqs, 1, n - 1), S)
       IN IF n \in S THEN front ELSE Append(front, reqs[n])

\* controller.abort() rejects the request that carries its signal; the
\* handler waiting for it runs its catch and finally before any other event
RECURSIVE CaughtAll(_, _, _)
CaughtAll(msgs, reqs, S) ==
  IF S = {} THEN msgs
  ELSE LET i == CHOOSE x \in S : \A y \in S : x <= y
       IN CaughtAll(Caught(msgs, reqs[i].kind, "cancelled"), reqs, S \ {i})

StopShown == loading \/ ragQuerying

handleStop ==
  /\ StopShown
  /\ IF abortControllerRef # 0
     THEN LET aborted == Signalled(agentReqs, abortControllerRef)
          IN /\ agentReqs' = Without(agentReqs, aborted)
             /\ abortControllerRef' = 0
             /\ loading' = FALSE
             /\ ragQuerying' = FALSE
             /\ messages' = CaughtAll(Append(messages, StoppedMessage),
                                      agentReqs, aborted)
     ELSE UNCHANGED <<agentReqs, abortControllerRef, loading, ragQuerying,
                      messages>>
  /\ alert' = ""
  /\ UNCHANGED <<noteVars, numPages, docVars, genVars, saveReqs, backendVars, netVars, docId, currentPage, isUploading,
                 showHistoryModal, loadingHistory, uploadedFiles,
                 embeddingInProgress, figures, showFigures, refVars, input,
                 topK>>
  /\ AutosaveEffect

(***************************************************************************)
(* SpecAgent: a.pdf was opened from the history list, its gallery is open; *)
(* any of the two Documents may already be embedded                        *)
(***************************************************************************)

CompletedSets == { {}, {"h1"}, {"h1", "h2"} }

InitAgent ==
  /\ \E done \in CompletedSets :
       /\ status = [d \in DocIds |->
                      IF d \in done THEN "completed"
                      ELSE IF d = "h1" THEN "none" ELSE "absent"]
       /\ index = [d \in DocIds |-> IF d \in done THEN NChunks(d) ELSE 0]
       /\ embedded = [d \in DocIds |-> IF d \in done THEN NChunks(d) ELSE 0]
       /\ stored = [d \in DocIds |->
                      IF d = "h1" THEN 1 ELSE IF d \in done THEN 2 ELSE 0]
  /\ tasks = [d \in DocIds |-> <<>>]
  /\ upload = IdleUpload
  /\ embedReqs = [d \in DocIds |-> <<>>]
  /\ histReqs = <<>>
  /\ metaReqs = <<>>
  /\ delReqs = [d \in DocIds |-> NoDelete]
  /\ docId = "h1"
  /\ currentPage = 1
  /\ isUploading = FALSE
  /\ showHistoryModal = FALSE
  /\ loadingHistory = FALSE
  /\ uploadedFiles = status
  /\ embeddingInProgress = [d \in DocIds |-> FALSE]
  /\ catalog = <<[caption |-> "Figure 1: Architecture", page |-> 4]>>
  /\ figures = catalog
  /\ showFigures = TRUE
  /\ alert = ""
  /\ figReqs = <<>>
  /\ resolveReqs = <<>>
  /\ loading = FALSE
  /\ ragQuerying = FALSE
  /\ messages = <<>>
  /\ input = ""
  /\ abortControllerRef = 0
  /\ agentReqs = <<>>
  /\ topK \in 1..MaxTopK
  /\ notes = <<>>
  /\ chatHistory = <<>>
  /\ pdfUrl = NoDoc
  /\ docNotes = [d \in DocIds |-> <<>>]
  /\ docChat = [d \in DocIds |-> <<>>]
  /\ isGeneratingSummary = FALSE
  /\ appAbortControllerRef = 0
  /\ genReqs = <<>>
  /\ autosaveTimer = FALSE
  /\ saveReqs = <<>>
  /\ noteReqs = <<>>
  /\ editor = NoEditor
  /\ numPages = 0

NextAgent ==
  \/ \E text \in Inputs : setInput(text)
  \/ setInputFromCard
  \/ handleSend
  \/ handleTask
  \/ handleActiveReading
  \/ \E proceed \in BOOLEAN : handleRagQuery(proceed)
  \/ \E f \in 1..MaxFigs : handleFigureClick(f)
  \/ \E i \in DOMAIN agentReqs : BackendAgent(i)
  \/ \E i \in DOMAIN agentReqs : BackendRag(i)
  \/ \E i \in DOMAIN agentReqs : BackendAgentFail(i)
  \/ \E i \in DOMAIN agentReqs : handleSendDone(i)
  \/ \E i \in DOMAIN agentReqs : handleTaskDone(i)
  \/ \E i \in DOMAIN agentReqs : handleActiveReadingDone(i)
  \/ \E i \in DOMAIN agentReqs : handleRagQueryDone(i)
  \/ \E i \in DOMAIN agentReqs : handleFigureClickDone(i)
  \/ handleStop

SpecAgent == InitAgent /\ [][NextAgent]_vars

\* The results are in rank order: similarity non-increasing, equal
\* similarity by earlier page, then by earlier offset
InRankOrder(chunks) ==
  \A i, j \in DOMAIN chunks :
    i < j =>
      \/ chunks[i].similarity_score > chunks[j].similarity_score
      \/ /\ chunks[i].similarity_score = chunks[j].similarity_score
         /\ chunks[i].page < chunks[j].page
      \/ /\ chunks[i].similarity_score = chunks[j].similarity_score
         /\ chunks[i].page = chunks[j].page
         /\ chunks[i].offset <= chunks[j].offset

IsRagCard(m) == m.card.title = "RAG Query Result"

C5_Returned ==
  /\ \A i \in DOMAIN agentReqs :
       (agentReqs[i].kind = "rag" /\ agentReqs[i].st = "ok")
         => /\ Len(agentReqs[i].chunks) <= topK
            /\ InRankOrder(agentReqs[i].chunks)
  /\ \A n \in DOMAIN messages :
       IsRagCard(messages[n])
         => /\ Len(Fragments(messages[n].card)) <= topK
            /\ InRankOrder(messages[n].card.chunks)

C5_ShownAsReturned ==
  \A i \in DOMAIN agentReqs :
    (handleRagQueryDone(i) /\ agentReqs[i].st = "ok")
      => LET shown == Fragments(messages'[Len(messages')].card)
             returned == agentReqs[i].chunks
         IN /\ Len(messages') = Len(messages) + 1
            /\ Len(shown) = Len(returned)
            /\ \A n \in DOMAIN returned :
                 /\ shown[n].n = n
                 /\ shown[n].doc_id = returned[n].doc_id
                 /\ shown[n].chunk = returned[n].chunk
                 /\ shown[n].similarity_score = returned[n].similarity_score

\* C5: retrieve returns at most top_k results, by non-increasing similarity,
\* equal similarity by earlier page then earlier offset, and the card lists
\* the fragments in the order and number returned.
C5_RankedTopK == []C5_Returned /\ [][C5_ShownAsReturned]_vars

C5_Witness ==
  /\ topK = MaxTopK
  /\ Cardinality(Candidates) > topK
  /\ \E n \in DOMAIN messages :
       /\ IsRagCard(messages[n])
       /\ Len(messages[n].card.chunks) = topK
       /\ messages[n].card.chunks[1].similarity_score
            = messages[n].card.chunks[2].similarity_score
       /\ messages[n].card.chunks[2].page = messages[n].card.chunks[1].page
       /\ messages[n].card.chunks[3].page > messages[n].card.chunks[2].page

\* C6: a retrieval that matches no chunk answers an empty sequence, and the
\* panel appends a 'RAG Query Result' card with no fragments and no
\* 'RAG query error' message.
C6_EmptyIsNoError ==
  [][\A i \in DOMAIN agentReqs :
       /\ (BackendRag(i) /\ Candidates = {})
            => agentReqs'[i].st = "ok" /\ agentReqs'[i].chunks = <<>>
       /\ (handleRagQueryDone(i) /\ agentReqs[i].st = "ok"
             /\ agentReqs[i].chunks = <<>>)
            => /\ Len(messages') = Len(messages) + 1
               /\ SubSeq(messages', 1, Len(messages)) = messages
               /\ IsRagCard(messages'[Len(messages')])
               /\ Fragments(messages'[Len(messages')].card) = <<>>
               /\ messages'[Len(messages')] # RagErrorMessage]_vars

C6_Witness ==
  /\ Candidates = {}
  /\ RagErrorMessage \notin Range(messages)
  /\ \E n \in DOMAIN messages :
       IsRagCard(messages[n]) /\ messages[n].card.chunks = <<>>

\* C10: with a panel request in flight, Stop aborts every request in flight,
\* clears loading and ragQuerying and appends one 'Generation stopped by
\* user.' message.
C10_StopAbortsAll ==
  [][(handleStop /\ agentReqs # <<>>)
       => /\ agentReqs' = <<>>
          /\ ~loading'
          /\ ~ragQuerying'
          /\ messages' = Append(messages, StoppedMessage)]_vars


(***************************************************************************)
(* Diagram and paper analysis of the notebook (App.jsx): one abortable     *)
(* request each, its result added to the notes of the notebook.            *)
(***************************************************************************)
MaxNotes == 2

\* A note card; doc is the document whose content the card was made from
Note(type, doc) ==
  [id |-> NewId(IF type = "overview" THEN "" ELSE "card-"), type |-> type,
   doc |-> doc, content |-> type]

\* The note the engine has stored for document d at the start
StoredNote(d) ==
  [id |-> <<"card-", IF d = "h1" THEN 1 ELSE 2>>, type |-> "overview", doc |-> d,
   content |-> "overview"]

\* new AbortController() of the App: a controller no request in flight holds
NewAppController ==
  CHOOSE c \in 1..(MaxInFlight + 1) :
    /\ c # appAbortControllerRef
    /\ \A i \in DOMAIN genReqs : genReqs[i].ctl # c

\* The request of a generation handler together with what the handler's
\* closure holds: the docId and the notes of the render it was started in
GenRequest(kind, ctl) ==
  [kind |-> kind, ctl |-> ctl, st |-> "sent", doc |-> docId, notes |-> notes,
   note |-> NoNote]

GenRoom == Room(1) /\ Len(notes) + Len(genReqs) < MaxNotes

\* handleGenerateSummary and handleGenerateDiagram differ in the type only
GenerateNotes(type) ==
  /\ docId # NoDoc
  /\ ~isGeneratingSummary
  /\ GenRoom
  /\ isGeneratingSummary' = TRUE
  /\ appAbortControllerRef' = NewAppController
  /\ genReqs' = Append(genReqs, GenRequest(type, NewAppController))
  /\ alert' = ""
  /\ UNCHANGED <<noteVars, numPages, docVars, saveVars, backendVars, netVars, appState, panelVars>>

\* NotebookPanel binds no control to onGenerateSummary
handleGenerateSummary == GenerateNotes("summary")

handleGenerateDiagram == GenerateNotes("diagram")

\* "Full Paper Analysis" is disabled while isGeneratingSummary
handleAnalyzePaper ==
  /\ docId # NoDoc
  /\ ~isGeneratingSummary
  /\ GenRoom
  /\ isGeneratingSummary' = TRUE
  /\ appAbortControllerRef' = NewAppController
  /\ genReqs' = Append(genReqs, GenRequest("overview", NewAppController))
  /\ alert' = ""
  /\ UNCHANGED <<noteVars, numPages, docVars, saveVars, backendVars, netVars, appState, panelVars>>

\* The engine answers init-notes or skim: cards, no cards, an analysis that
\* carries an error, or a failure
GenAnswers(kind) ==
  IF kind = "overview" THEN {"ok", "analysis_error", "error"}
  ELSE {"ok", "empty", "error"}

BackendGenerate(i, answer) ==
  /\ genReqs[i].st = "sent"
  /\ answer \in GenAnswers(genReqs[i].kind)
  /\ genReqs' = [genReqs EXCEPT ![i].st = answer]
  /\ alert' = ""
  /\ UNCHANGED <<noteVars, numPages, docVars, saveVars, isGeneratingSummary, appAbortControllerRef,
                 backendVars, netVars, appState, panelVars>>

\* The alert of the catch branch of a generation handler
GenCaught(al, kind, err) ==
  IF IsCancel(err) THEN al
  ELSE IF kind = "overview" THEN "Failed to analyze paper."
  ELSE "Failed to generate diagram"

\* try / catch / finally of handleGenerateSummary and handleGenerateDiagram
handleGenerateDiagramDone(i) ==
  /\ genReqs[i].kind # "overview"
  /\ genReqs[i].st \in {"ok", "empty", "error"}
  /\ notes' = IF genReqs[i].st = "ok"
              THEN Append(notes, Note(genReqs[i].kind, genReqs[i].doc))
              ELSE notes
  /\ alert' = IF genReqs[i].st = "error"
              THEN GenCaught("", genReqs[i].kind, genReqs[i].st)
              ELSE ""
  /\ isGeneratingSummary' = FALSE
  /\ appAbortControllerRef' = 0
  /\ genReqs' = RemoveAt(genReqs, i)
  /\ UNCHANGED <<noteVars, numPages, chatHistory, pdfUrl, docNotes, docChat, saveVars, backendVars,
                 netVars, appState, panelVars>>

\* handleAnalyzePaper after skimPaper settled: on an analysis it calls
\* handleAddNote of the same render, which sets the notes from its closure
\* and sends addNoteToDoc without a signal
handleAnalyzePaperDone(i) ==
  /\ genReqs[i].kind = "overview"
  /\ genReqs[i].st \in {"ok", "analysis_error", "error"}
  /\ IF genReqs[i].st = "ok"
     THEN LET analysisNote == Note("overview", genReqs[i].doc)
          IN  /\ notes' = Append(genReqs[i].notes, analysisNote)
              /\ genReqs' = [genReqs EXCEPT ![i].st = "saving",
                                            ![i].note = analysisNote]
          /\ alert' = ""
          /\ UNCHANGED isGeneratingSummary
     ELSE /\ notes' = notes
          /\ genReqs' = RemoveAt(genReqs, i)
          /\ alert' = IF genReqs[i].st = "analysis_error"
                      THEN "Failed to analyze paper: error"
                      ELSE GenCaught("", "overview", genReqs[i].st)
          /\ isGeneratingSummary' = FALSE
  /\ UNCHANGED <<noteVars, numPages, chatHistory, pdfUrl, docNotes, docChat, saveVars,
                 appAbortControllerRef, backendVars, netVars, appState,
                 panelVars>>

\* The engine stores the note under the doc_id of the request, or fails
BackendAddNote(i, ok) ==
  /\ genReqs[i].st = "saving"
  /\ genReqs' = [genReqs EXCEPT ![i].st = "saved"]
  /\ docNotes' = IF ok
                 THEN [docNotes EXCEPT ![genReqs[i].doc] =
                         Append(@, genReqs[i].note)]
                 ELSE docNotes
  /\ alert' = ""
  /\ UNCHANGED <<noteVars, numPages, notes, chatHistory, pdfUrl, docChat, saveVars,
                 isGeneratingSummary, appAbortControllerRef, backendVars,
                 netVars, appState, panelVars>>

\* handleAddNote returns whether or not the note was stored; the finally of
\* handleAnalyzePaper leaves abortControllerRef as it is
handleAddNoteDone(i) ==
  /\ genReqs[i].st = "saved"
  /\ genReqs' = RemoveAt(genReqs, i)
  /\ isGeneratingSummary' = FALSE
  /\ alert' = ""
  /\ UNCHANGED <<noteVars, numPages, docVars, saveVars, appAbortControllerRef, backendVars,
                 netVars, appState, panelVars>>

\* The requests the signal of the App's controller can still abort
GenSignalled ==
  { i \in Signalled(genReqs, appAbortControllerRef) :
      genReqs[i].st \notin {"saving", "saved"} }

RECURSIVE GenCaughtAll(_, _, _)
GenCaughtAll(al, reqs, S) ==
  IF S = {} THEN al
  ELSE LET i == CHOOSE x \in S : \A y \in S : x <= y
       IN GenCaughtAll(GenCaught(al, reqs[i].kind, "cancelled"), reqs, S \ {i})

\* The notebook shows Stop while isGeneratingSummary
handleStopGeneration ==
  /\ isGeneratingSummary
  /\ IF appAbortControllerRef # 0
     THEN /\ genReqs' = Without(genReqs, GenSignalled)
          /\ appAbortControllerRef' = 0
          /\ isGeneratingSummary' = FALSE
          /\ alert' = GenCaughtAll("", genReqs, GenSignalled)
     ELSE /\ alert' = ""
          /\ UNCHANGED genVars
  /\ UNCHANGED <<noteVars, numPages, docVars, saveVars, backendVars, netVars, appState, panelVars>>

InitStop ==
  /\ InitAgent
  /\ topK = MaxTopK
  /\ status = [d \in DocIds |-> IF d = "h1" THEN "completed" ELSE "absent"]

NextStop ==
  \/ NextAgent
  \/ handleGenerateDiagram
  \/ handleAnalyzePaper
  \/ \E i \in DOMAIN genReqs : \E answer \in {"ok", "empty", "analysis_error", "error"} :
       BackendGenerate(i, answer)
  \/ \E i \in DOMAIN genReqs : handleGenerateDiagramDone(i)
  \/ \E i \in DOMAIN genReqs : handleAnalyzePaperDone(i)
  \/ \E i \in DOMAIN genReqs : \E ok \in BOOLEAN : BackendAddNote(i, ok)
  \/ \E i \in DOMAIN genReqs : handleAddNoteDone(i)
  \/ handleStopGeneration

SpecStop == InitStop /\ [][NextStop]_vars

\* C11: a request that Stop aborts commits nothing: the step that aborts it
\* removes it from the requests in flight and adds no assistant card, no
\* error message, no note and no alert; the panel adds only its one
\* "Generation stopped by user." message.
C11_CancelCommitsNothing ==
  [][/\ (handleStop /\ abortControllerRef # 0)
        => /\ messages' = Append(messages, StoppedMessage)
           /\ \A i \in DOMAIN agentReqs' :
                agentReqs'[i].ctl # abortControllerRef
     /\ (handleStopGeneration /\ appAbortControllerRef # 0)
        => /\ notes' = notes
           /\ alert' = ""
           /\ \A i \in DOMAIN genReqs' :
                \/ genReqs'[i].ctl # appAbortControllerRef
                \/ genReqs'[i].st \in {"saving", "saved"}]_vars

\* The panel's Stop has aborted its request while the notebook's Stop is
\* about to abort a diagram or an analysis
C11_Witness ==
  /\ messages # <<>>
  /\ messages[Len(messages)] = StoppedMessage
  /\ agentReqs = <<>>
  /\ isGeneratingSummary
  /\ GenSignalled # {}


(***************************************************************************)
(* Autosave of the chat history (AgentPanel.jsx) and the documents'        *)
(* stored notes and chat history                                           *)
(***************************************************************************)
\* saveChatHistory requests in flight at a time
MaxSaves == 1

\* The timer fires: saveChatHistory(docId, fullMessages) with the docId and
\* the messages of the render that started the timer, which are the current
\* ones because every change of either restarts the timer
autosave ==
  /\ autosaveTimer
  /\ Room(1)
  /\ Len(saveReqs) < MaxSaves
  /\ autosaveTimer' = FALSE
  /\ saveReqs' = Append(saveReqs, [doc |-> docId, history |-> messages])
  /\ alert' = ""
  /\ UNCHANGED <<noteVars, numPages, docVars, genVars, backendVars, netVars, appState, panelVars>>

\* The engine stores the history under the doc_id of the request
BackendSave(i) ==
  /\ docChat' = [docChat EXCEPT ![saveReqs[i].doc] = saveReqs[i].history]
  /\ saveReqs' = RemoveAt(saveReqs, i)
  /\ alert' = ""
  /\ UNCHANGED <<noteVars, numPages, notes, chatHistory, pdfUrl, docNotes, genVars, autosaveTimer,
                 backendVars, netVars, appState, panelVars>>

\* The messages shown and stored stay below MaxStored when a task starts
MaxStored == 2

\* Messages shown, stored, on their way to the store, and replies awaited
RECURSIVE Saving(_)
Saving(reqs) ==
  IF reqs = <<>> THEN 0 ELSE Len(Head(reqs).history) + Saving(Tail(reqs))

StoreRoom ==
  Len(messages) + SumLen(docChat, DocIds) + Saving(saveReqs) + Len(agentReqs)
    < MaxStored

\* Two stored documents, each with a note of its own and no conversation yet
InitDoc ==
  /\ status = [d \in DocIds |-> "completed"]
  /\ index = [d \in DocIds |-> NChunks(d)]
  /\ embedded = [d \in DocIds |-> NChunks(d)]
  /\ stored = [d \in DocIds |-> IF d = "h1" THEN 1 ELSE 2]
  /\ tasks = [d \in DocIds |-> <<>>]
  /\ upload = IdleUpload
  /\ embedReqs = [d \in DocIds |-> <<>>]
  /\ histReqs = <<>>
  /\ metaReqs = <<>>
  /\ delReqs = [d \in DocIds |-> NoDelete]
  /\ docId = NoDoc
  /\ currentPage = 1
  /\ isUploading = FALSE
  /\ showHistoryModal = FALSE
  /\ loadingHistory = FALSE
  /\ uploadedFiles = status
  /\ embeddingInProgress = [d \in DocIds |-> FALSE]
  /\ catalog = <<>>
  /\ figures = <<>>
  /\ showFigures = FALSE
  /\ alert = ""
  /\ figReqs = <<>>
  /\ resolveReqs = <<>>
  /\ loading = FALSE
  /\ ragQuerying = FALSE
  /\ messages = <<>>
  /\ input = ""
  /\ abortControllerRef = 0
  /\ agentReqs = <<>>
  /\ topK = MaxTopK
  /\ notes = <<>>
  /\ chatHistory = <<>>
  /\ pdfUrl = NoDoc
  /\ docNotes = [d \in DocIds |-> <<StoredNote(d)>>]
  /\ docChat = [d \in DocIds |-> <<>>]
  /\ isGeneratingSummary = FALSE
  /\ appAbortControllerRef = 0
  /\ genReqs = <<>>
  /\ autosaveTimer = FALSE
  /\ saveReqs = <<>>
  /\ noteReqs = <<>>
  /\ editor = NoEditor
  /\ numPages = 0

NextDoc ==
  \/ OpenHistory
  \/ \E i \in DOMAIN histReqs : BackendHistory(i)
  \/ \E i \in DOMAIN histReqs : loadHistoryFilesDone(i)
  \/ \E d \in DocIds : handleSelectHistoryFile(d)
  \/ handleCloseDocument
  \/ \E i \in DOMAIN metaReqs : loadDocDataDone(i)
  \/ \E i \in DOMAIN metaReqs : loadDocDataFailed(i)
  \/ StoreRoom /\ handleTask
  \/ \E i \in DOMAIN agentReqs : BackendAgent(i)
  \/ \E i \in DOMAIN agentReqs : handleTaskDone(i)
  \/ handleGenerateDiagram
  \/ \E i \in DOMAIN genReqs : BackendGenerate(i, "ok")
  \/ \E i \in DOMAIN genReqs : handleGenerateDiagramDone(i)
  \/ autosave
  \/ \E i \in DOMAIN saveReqs : BackendSave(i)

SpecDoc == InitDoc /\ [][NextDoc]_vars

\* C12: with a document open, the notes, the chat history, the messages and
\* the PDF the client shows are those of the open doc_id: nothing of another
\* document is among them.
C12_BelongToOpenDocument ==
  docId # NoDoc
    => /\ pdfUrl \in {NoDoc, docId}
       /\ \A i \in DOMAIN notes : notes[i].doc = docId
       /\ \A i \in DOMAIN chatHistory : chatHistory[i].doc = docId
       /\ \A i \in DOMAIN messages : messages[i].doc = docId

\* C13: every saveChatHistory(docId, history) request carries only messages
\* of that docId's conversation: messages loaded from it or produced in it.
C13_SavesOwnConversation ==
  \A i \in DOMAIN saveReqs :
    \A j \in DOMAIN saveReqs[i].history :
      saveReqs[i].history[j].doc = saveReqs[i].doc

\* The engine holds message m in the history of document d, or a
\* saveChatHistory request for d that carries m is on its way
Saved(m, d) ==
  \/ m \in Range(docChat[d])
  \/ \E i \in DOMAIN saveReqs :
       saveReqs[i].doc = d /\ m \in Range(saveReqs[i].history)

\* C14: every message added to the open document's conversation is
\* eventually included in a saveChatHistory request for that document,
\* whatever the user does next. A message can only be sent from the message
\* list, so it may leave the list only once a request for the document has
\* carried it.
C14_EveryMessageSaved ==
  [][\A j \in DOMAIN messages :
       (/\ docId # NoDoc
        /\ messages[j].doc = docId
        /\ messages[j] \notin Range(messages'))
         => Saved(messages[j], docId)]_vars

\* C15: when the delete of the open document has succeeded the client holds
\* no docId, PDF URL, notes or chat history; a declined confirmation, a
\* failed delete and the delete of another document leave them unchanged.
C15_DeleteClearsOpenDocument ==
  [][\A d \in DocIds :
       /\ (handleDeleteDocumentDone(d) /\ delReqs[d].st = "ok" /\ docId = d)
            => /\ docId' = NoDoc
               /\ pdfUrl' = NoDoc
               /\ notes' = <<>>
               /\ chatHistory' = <<>>
       /\ (handleDeleteDocumentDone(d) /\ (delReqs[d].st = "err" \/ docId # d))
            => UNCHANGED <<docId, pdfUrl, notes, chatHistory>>
       /\ handleDeleteDocument(d, FALSE)
            => UNCHANGED <<docId, pdfUrl, notes, chatHistory>>]_vars

\* embedDocument requests for a document that the engine has not seen yet
Unanswered(reqs) == Cardinality({ i \in DOMAIN reqs : reqs[i] = "sent" })

\* C16: an embedDocument request is sent only by the user's Embed action,
\* one request per action, so a failed or rejected embed is followed by no
\* request until the user triggers Embed again; when a request has settled
\* the document's in-progress flag is false.
C16_NoAutomaticRetry ==
  [][\A d \in DocIds :
       /\ Unanswered(embedReqs'[d]) > Unanswered(embedReqs[d])
            => /\ handleTriggerEmbedding(d)
               /\ Unanswered(embedReqs'[d]) = Unanswered(embedReqs[d]) + 1
       /\ (\E i \in DOMAIN embedReqs[d] : handleTriggerEmbeddingDone(d, i))
            => ~embeddingInProgress'[d]]_vars

\* A failed or rejected embed request has settled and nothing is in flight
C16_Witness ==
  /\ alert \in {"Embedding failed", "Error triggering embedding"}
  /\ \A d \in DocIds : embedReqs[d] = <<>> /\ ~embeddingInProgress[d]

(***************************************************************************)
(* A RAG query right after an upload: the document is open while the       *)
(* history list of the client has not been reloaded yet                    *)
(***************************************************************************)
\* After handleFileUploadDone and the answers to loadDocData: h1 is stored
\* and open, loadHistoryFiles is in flight and the list is still empty
InitRag ==
  /\ status = [d \in DocIds |-> IF d = "h1" THEN "none" ELSE "absent"]
  /\ index = [d \in DocIds |-> 0]
  /\ embedded = [d \in DocIds |-> 0]
  /\ stored = [d \in DocIds |-> IF d = "h1" THEN 1 ELSE 0]
  /\ tasks = [d \in DocIds |-> <<>>]
  /\ upload = IdleUpload
  /\ embedReqs = [d \in DocIds |-> <<>>]
  /\ histReqs = LoadHistoryFiles(<<>>)
  /\ metaReqs = <<>>
  /\ delReqs = [d \in DocIds |-> NoDelete]
  /\ docId = "h1"
  /\ currentPage = 1
  /\ isUploading = FALSE
  /\ showHistoryModal = FALSE
  /\ loadingHistory = TRUE
  /\ uploadedFiles = [d \in DocIds |-> "absent"]
  /\ embeddingInProgress = [d \in DocIds |-> FALSE]
  /\ catalog = <<>>
  /\ figures = <<>>
  /\ showFigures = FALSE
  /\ alert = ""
  /\ figReqs = <<>>
  /\ resolveReqs = <<>>
  /\ loading = FALSE
  /\ ragQuerying = FALSE
  /\ messages = <<>>
  /\ input = ""
  /\ abortControllerRef = 0
  /\ agentReqs = <<>>
  /\ topK = MaxTopK
  /\ notes = <<>>
  /\ chatHistory = <<>>
  /\ pdfUrl = getPdfUrl("h1")
  /\ docNotes = [d \in DocIds |-> <<>>]
  /\ docChat = [d \in DocIds |-> <<>>]
  /\ isGeneratingSummary = FALSE
  /\ appAbortControllerRef = 0
  /\ genReqs = <<>>
  /\ autosaveTimer = FALSE
  /\ saveReqs = <<>>
  /\ noteReqs = <<>>
  /\ editor = NoEditor
  /\ numPages = 0

NextRag ==
  \/ \E i \in DOMAIN histReqs : BackendHistory(i)
  \/ \E i \in DOMAIN histReqs : BackendHistoryFail(i)
  \/ \E i \in DOMAIN histReqs : loadHistoryFilesDone(i)
  \/ \E text \in Inputs : setInput(text)
  \/ \E proceed \in BOOLEAN : handleRagQuery(proceed)
  \/ \E i \in DOMAIN agentReqs : BackendRag(i)
  \/ \E i \in DOMAIN agentReqs : BackendAgentFail(i)
  \/ \E i \in DOMAIN agentReqs : handleRagQueryDone(i)
  \/ handleStop

SpecRag == InitRag /\ [][NextRag]_vars

\* C17: with a document open whose embedding_status is not completed, a RAG
\* query is sent only when the user has confirmed the warning; without the
\* confirmation no request is sent and the messages, the input and
\* ragQuerying stay as they are.
C17_ConfirmBeforeRag ==
  [][(/\ docId # NoDoc
      /\ status[docId] # "completed"
      /\ handleRagQuery(FALSE))
       => UNCHANGED <<agentReqs, messages, input, ragQuerying>>]_vars

\* C18: at most one request of the Agent panel (chat, quick task, active
\* reading, RAG query, figure analysis) is in flight at any time.
C18_OneRequestInFlight == Len(agentReqs) <= 1

\* C19: the busy state is truthful: loading is true while a chat, quick-task,
\* active-reading or figure-analysis request is in flight, ragQuerying is
\* true while a RAG query is in flight, and the shared abort controller
\* reference is non-null while an abortable request is in flight.
C19_BusyStateTruthful ==
  \A i \in DOMAIN agentReqs :
    /\ agentReqs[i].kind # "rag" => loading
    /\ agentReqs[i].kind = "rag" => ragQuerying
    /\ agentReqs[i].kind # "figure" => abortControllerRef # 0

\* The messages with text content, in order, as role and content
TextHistory(msgs) ==
  LET HasText(m) == m.content # ""
      texts == SelectSeq(msgs, HasText)
  IN [i \in DOMAIN texts |->
        [role |-> texts[i].role, content |-> texts[i].content]]

\* C20: Send does nothing when the input is blank, no document is open or
\* loading is true; otherwise it appends exactly one user message, clears
\* the input and sends exactly one chat request, whose history is the prior
\* messages that have text content, in order, without the question.
C20_Send ==
  [][handleSend =>
       IF trim(input) = "" \/ docId = NoDoc \/ loading
       THEN UNCHANGED <<messages, input, agentReqs>>
       ELSE /\ messages' = Append(messages, UserMessage(input))
            /\ input' = ""
            /\ Len(agentReqs') = Len(agentReqs) + 1
            /\ SubSeq(agentReqs', 1, Len(agentReqs)) = agentReqs
            /\ agentReqs'[Len(agentReqs')].kind = "chat"
            /\ agentReqs'[Len(agentReqs')].history = TextHistory(messages)]_vars

\* A chat request is in flight whose history left out a card of the
\* conversation and holds the earlier question
C20_Witness ==
  \E i \in DOMAIN agentReqs :
    /\ agentReqs[i].kind = "chat"
    /\ agentReqs[i].history # <<>>
    /\ Len(agentReqs[i].history) + 1 < Len(messages)

\* The continuation of handleSend, handleTask or handleActiveReading runs
\* for request i
ChatTaskReadingDone(i) ==
  handleSendDone(i) \/ handleTaskDone(i) \/ handleActiveReadingDone(i)

\* C21: when a chat, quick-task or active-reading request fails for a reason
\* other than cancellation, exactly one assistant message starting with
\* "Error: " is appended; when it is cancelled no assistant message is
\* appended; loading is false once the request has settled, whatever the
\* outcome.
C21_FailureAndCancel ==
  [][/\ \A i \in DOMAIN agentReqs :
          ChatTaskReadingDone(i)
            => /\ loading' = FALSE
               /\ agentReqs[i].st = "error"
                    => /\ Len(messages') = Len(messages) + 1
                       /\ SubSeq(messages', 1, Len(messages)) = messages
                       /\ messages'[Len(messages')].role = "assistant"
                       /\ SubSeq(messages'[Len(messages')].content, 1, 7)
                            = "Error: "
     /\ (handleStop /\ Signalled(agentReqs, abortControllerRef) # {})
          => /\ loading' = FALSE
             /\ \A j \in (Len(messages) + 1)..Len(messages') :
                  messages'[j].role # "assistant"]_vars

\* A failed request has settled: its error message ends the conversation
C21_Witness ==
  /\ messages # <<>>
  /\ messages[Len(messages)] = ErrorMessage
  /\ ~loading
  /\ agentReqs = <<>>

(***************************************************************************)
(* The figure catalog of the client while documents are opened and closed  *)
(***************************************************************************)
\* Two stored documents; h1 has one Figure
InitFig ==
  /\ status = [d \in DocIds |-> "completed"]
  /\ index = [d \in DocIds |-> NChunks(d)]
  /\ embedded = [d \in DocIds |-> NChunks(d)]
  /\ stored = [d \in DocIds |-> IF d = "h1" THEN 1 ELSE 2]
  /\ tasks = [d \in DocIds |-> <<>>]
  /\ upload = IdleUpload
  /\ embedReqs = [d \in DocIds |-> <<>>]
  /\ histReqs = <<>>
  /\ metaReqs = <<>>
  /\ delReqs = [d \in DocIds |-> NoDelete]
  /\ docId = NoDoc
  /\ currentPage = 1
  /\ isUploading = FALSE
  /\ showHistoryModal = FALSE
  /\ loadingHistory = FALSE
  /\ uploadedFiles = status
  /\ embeddingInProgress = [d \in DocIds |-> FALSE]
  /\ catalog = <<[caption |-> "Figure 1: Architecture", page |-> 4]>>
  /\ figures = <<>>
  /\ showFigures = FALSE
  /\ alert = ""
  /\ figReqs = <<>>
  /\ resolveReqs = <<>>
  /\ loading = FALSE
  /\ ragQuerying = FALSE
  /\ messages = <<>>
  /\ input = ""
  /\ abortControllerRef = 0
  /\ agentReqs = <<>>
  /\ topK = MaxTopK
  /\ notes = <<>>
  /\ chatHistory = <<>>
  /\ pdfUrl = NoDoc
  /\ docNotes = [d \in DocIds |-> <<StoredNote(d)>>]
  /\ docChat = [d \in DocIds |-> <<>>]
  /\ isGeneratingSummary = FALSE
  /\ appAbortControllerRef = 0
  /\ genReqs = <<>>
  /\ autosaveTimer = FALSE
  /\ saveReqs = <<>>
  /\ noteReqs = <<>>
  /\ editor = NoEditor
  /\ numPages = 0

NextFig ==
  \/ OpenHistory
  \/ \E i \in DOMAIN histReqs : BackendHistory(i)
  \/ \E i \in DOMAIN histReqs : loadHistoryFilesDone(i)
  \/ \E d \in DocIds : handleSelectHistoryFile(d)
  \/ handleCloseDocument
  \/ \E i \in DOMAIN metaReqs : loadDocDataDone(i)
  \/ \E i \in DOMAIN metaReqs : loadDocDataFailed(i)
  \/ handleLoadFigures
  \/ \E i \in DOMAIN figReqs : BackendFigures(i)
  \/ \E i \in DOMAIN figReqs : BackendFiguresFail(i)
  \/ \E i \in DOMAIN figReqs : handleLoadFiguresDone(i)
  \/ \E i \in DOMAIN figReqs : handleLoadFiguresFailed(i)
  \/ \E r \in RefTexts : handleReferenceClick(r)
  \/ \E i \in DOMAIN resolveReqs : BackendResolve(i)
  \/ \E i \in DOMAIN resolveReqs : BackendResolveFail(i)
  \/ \E i \in DOMAIN resolveReqs : handleReferenceClickDone(i)

SpecFig == InitFig /\ [][NextFig]_vars

\* C22: with a document open, the figure catalog the client holds is empty
\* or the catalog of that document, so the gallery and the reference clicks
\* never use the figures of another document.
C22_CatalogOfOpenDocument ==
  docId # NoDoc => figures \in {<<>>, CatalogOf(docId)}

(***************************************************************************)
(* The PDF viewer: the page count and the toolbar                          *)
(***************************************************************************)

MaxPages == 3

\* page_count of a document's PDF
PageCount(d) == IF d = "h1" THEN MaxPages ELSE 1

\* The viewer is mounted while a document is open, and shows the toolbar
\* while it has a file
ToolbarShown == docId # NoDoc /\ pdfUrl # NoDoc

\* onDocumentLoadSuccess({ numPages }): the PDF of pdfUrl has loaded
onDocumentLoadSuccess ==
  /\ ToolbarShown
  /\ numPages # PageCount(pdfUrl)
  /\ numPages' = PageCount(pdfUrl)
  /\ UNCHANGED <<backendVars, netVars, appVars, panelVars, docVars, genVars,
                 saveVars, noteVars>>

\* The Previous button: disabled at page 1, else Math.max(1, pageNumber - 1)
PreviousPageOf(pageNumber) ==
  IF pageNumber <= 1 THEN pageNumber
  ELSE IF pageNumber - 1 < 1 THEN 1 ELSE pageNumber - 1

NextPageOfUnchecked(pageNumber, n) == pageNumber + 1

\* The Next button: disabled when pageNumber >= numPages (null counts as 0),
\* else Math.min(numPages || 1, pageNumber + 1)
NextPageOf(pageNumber, n) ==
  IF pageNumber >= n THEN pageNumber
  ELSE LET last == IF n = 0 THEN 1 ELSE n
       IN  IF pageNumber + 1 < last THEN pageNumber + 1 ELSE last

\* onPageChange is setCurrentPage
PreviousPage ==
  /\ ToolbarShown
  /\ PreviousPageOf(currentPage) # currentPage
  /\ currentPage' = PreviousPageOf(currentPage)
  /\ UNCHANGED <<backendVars, netVars, docId, isUploading, showHistoryModal,
                 loadingHistory, uploadedFiles, embeddingInProgress, figures,
                 showFigures, alert, panelVars, moreVars>>

NextPage ==
  /\ ToolbarShown
  /\ NextPageOf(currentPage, numPages) # currentPage
  /\ currentPage' = NextPageOf(currentPage, numPages)
  /\ UNCHANGED <<backendVars, netVars, docId, isUploading, showHistoryModal,
                 loadingHistory, uploadedFiles, embeddingInProgress, figures,
                 showFigures, alert, panelVars, moreVars>>

InitView == InitDoc

NextView ==
  \/ OpenHistory
  \/ \E i \in DOMAIN histReqs : BackendHistory(i)
  \/ \E i \in DOMAIN histReqs : loadHistoryFilesDone(i)
  \/ \E d \in DocIds : handleSelectHistoryFile(d)
  \/ handleCloseDocument
  \/ \E i \in DOMAIN metaReqs : loadDocDataDone(i)
  \/ \E i \in DOMAIN metaReqs : loadDocDataFailed(i)
  \/ onDocumentLoadSuccess
  \/ PreviousPage
  \/ NextPage

SpecView == InitView /\ [][NextView]_vars

\* C23: a Previous or Next click made on a page within 1..numPages requests
\* a page within 1..numPages, and while numPages is still unknown a Next
\* click requests no page above 1.
C23_PageWithinRange ==
  [][ /\ (PreviousPage \/ NextPage) /\ currentPage \in 1..numPages
         => currentPage' \in 1..numPages
      /\ NextPage /\ numPages = 0 => currentPage' <= 1 ]_vars

\* Next has been clicked up to the last page of a PDF of several pages
C23_Witness ==
  /\ ToolbarShown
  /\ numPages = MaxPages
  /\ currentPage = numPages

(***************************************************************************)
(* The notebook: adding, removing and editing notes (App, NotebookPanel,   *)
(* FullscreenModal)                                                        *)
(***************************************************************************)

MaxShown == 3
MaxNoteReqs == 1

\* What a note handler leaves alone
noteRest == <<backendVars, netVars, appState, panelVars, chatHistory, pdfUrl,
              docChat, genVars, saveVars, numPages>>

\* A request of a note handler: the docId of its render and the note
NoteRequest(kind, note) ==
  [kind |-> kind, st |-> "sent", doc |-> docId, note |-> note]

\* Room for one more note: shown, and stored once the requests in flight
\* have been answered
NoteRoom ==
  /\ Len(notes) < MaxShown
  /\ Len(noteReqs) < MaxNoteReqs
  /\ Len(docNotes[docId]) + Len(noteReqs) + Len(genReqs) < MaxShown

\* The fullscreen modal covers the panels: a click outside it closes it
PanelsReachable == ~editor.isOpen

\* { ...msg.card, question: msg.card.question }
NoteOfCard(msg) ==
  [id |-> msg.card.id, type |-> "card", doc |-> msg.doc,
   content |-> msg.card.title]

\* note.id || `note-${Date.now()}-${Math.random()...}`
noteWithId(note) ==
  [note EXCEPT !.id = IF note.id # NoId THEN note.id ELSE NewId("note-")]

\* handleAddNote up to its await: notes is the list of the render the
\* handler belongs to, here the current one
handleAddNote(note) ==
  /\ note # NoNote
  /\ notes' = Append(notes, noteWithId(note))
  /\ noteReqs' = Append(noteReqs, NoteRequest("add", noteWithId(note)))
  /\ alert' = ""
  /\ UNCHANGED <<noteRest, docNotes, editor>>

\* "Add to Notebook" on the card of message n
AddToNotebook(n) ==
  /\ PanelsReachable
  /\ NoteRoom
  /\ messages[n].card # NoCard
  /\ handleAddNote(NoteOfCard(messages[n]))

\* notes.filter(n => n.id !== noteId)
WithoutNote(ns, noteId) == SelectSeq(ns, LAMBDA n : n.id # noteId)

\* handleRemoveNote up to its await, from the Delete button of note k
handleRemoveNote(k) ==
  /\ PanelsReachable
  /\ Len(noteReqs) < MaxNoteReqs
  /\ notes' = WithoutNote(notes, notes[k].id)
  /\ noteReqs' = Append(noteReqs, NoteRequest("remove", notes[k]))
  /\ alert' = ""
  /\ UNCHANGED <<noteRest, docNotes, editor>>

\* prev.map(n => n.id === noteId ? updatedNote : n)
Replaced(ns, updatedNote) ==
  [k \in DOMAIN ns |-> IF ns[k].id = updatedNote.id THEN updatedNote ELSE ns[k]]

\* The engine stores, deletes or replaces the note under the doc_id of the
\* request, or fails
BackendNotes(i, ok) ==
  /\ noteReqs[i].st = "sent"
  /\ noteReqs' = [noteReqs EXCEPT ![i].st = IF ok THEN "ok" ELSE "error"]
  /\ docNotes' =
       IF ~ok THEN docNotes
       ELSE [docNotes EXCEPT ![noteReqs[i].doc] =
               IF noteReqs[i].kind = "add" THEN Append(@, noteReqs[i].note)
               ELSE IF noteReqs[i].kind = "remove"
               THEN WithoutNote(@, noteReqs[i].note.id)
               ELSE Replaced(@, noteReqs[i].note)]
  /\ alert' = ""
  /\ UNCHANGED <<noteRest, notes, editor>>

\* handleAddNote after its await: the catch logs the failure
handleAddNoteReturns(i) ==
  /\ noteReqs[i].kind = "add"
  /\ noteReqs[i].st # "sent"
  /\ noteReqs' = RemoveAt(noteReqs, i)
  /\ alert' = ""
  /\ UNCHANGED <<noteRest, notes, docNotes, editor>>

\* handleRemoveNote after its await: the catch logs the failure
handleRemoveNoteReturns(i) ==
  /\ noteReqs[i].kind = "remove"
  /\ noteReqs[i].st # "sent"
  /\ noteReqs' = RemoveAt(noteReqs, i)
  /\ alert' = ""
  /\ UNCHANGED <<noteRest, notes, docNotes, editor>>

\* A click on note k opens the modal; its effect on isOpen leaves edit mode
handleNoteClick(k) ==
  /\ PanelsReachable
  /\ k \in DOMAIN notes
  /\ editor' = [editor EXCEPT !.isOpen = TRUE, !.selectedNote = notes[k],
                              !.isEditing = FALSE]
  /\ alert' = ""
  /\ UNCHANGED <<noteRest, notes, docNotes, noteReqs>>

closeModal ==
  /\ editor.isOpen
  /\ editor' = [editor EXCEPT !.isOpen = FALSE, !.selectedNote = NoNote]
  /\ alert' = ""
  /\ UNCHANGED <<noteRest, notes, docNotes, noteReqs>>

\* The Edit button: setIsEditing(true)
EditNote ==
  /\ editor.isOpen
  /\ ~editor.isEditing
  /\ editor' = [editor EXCEPT !.isEditing = TRUE]
  /\ alert' = ""
  /\ UNCHANGED <<noteRest, notes, docNotes, noteReqs>>

\* The text the user saves
EditedContent == "edited"

\* notes.find(n => n.id === noteId)
Found(noteId) == { k \in DOMAIN notes : notes[k].id = noteId }
noteToUpdate(noteId) ==
  notes[CHOOSE k \in Found(noteId) : \A j \in Found(noteId) : k <= j]

\* FullscreenModal.handleSave after onSave settled: on success NotebookPanel
\* merges the data into selectedNote, whose change leaves edit mode; the
\* catch alerts; the finally resets isSaving
handleSaveDone(ed, st) ==
  IF st = "ok"
  THEN [ed EXCEPT !.selectedNote.content = EditedContent, !.isEditing = FALSE,
                  !.isSaving = FALSE]
  ELSE [ed EXCEPT !.isSaving = FALSE]

\* The Save button: handleSave calls onSave, which calls handleUpdateNote;
\* that returns at once when no note of its render has the id
handleSave ==
  /\ editor.isOpen
  /\ editor.isEditing
  /\ ~editor.isSaving
  /\ Len(noteReqs) < MaxNoteReqs
  /\ IF Found(editor.selectedNote.id) = {}
     THEN /\ editor' = handleSaveDone(editor, "ok")
          /\ UNCHANGED noteReqs
     ELSE /\ editor' = [editor EXCEPT !.isSaving = TRUE]
          /\ noteReqs' =
               Append(noteReqs,
                      NoteRequest("update",
                                  [noteToUpdate(editor.selectedNote.id)
                                     EXCEPT !.content = EditedContent]))
  /\ alert' = ""
  /\ UNCHANGED <<noteRest, notes, docNotes>>

\* handleUpdateNote after its await, and what follows in onSave and
\* handleSave
handleUpdateNoteDone(i) ==
  /\ noteReqs[i].kind = "update"
  /\ noteReqs[i].st # "sent"
  /\ notes' = IF noteReqs[i].st = "ok" THEN Replaced(notes, noteReqs[i].note)
              ELSE notes
  /\ editor' = handleSaveDone(editor, noteReqs[i].st)
  /\ alert' = IF noteReqs[i].st = "ok" THEN "" ELSE "Failed to save changes"
  /\ noteReqs' = RemoveAt(noteReqs, i)
  /\ UNCHANGED <<noteRest, docNotes>>

\* Document h1 is open and loaded; its conversation holds a card of the
\* engine, taken here to come without an id, and a figure analysis, whose
\* card the client gave an id
SummaryCardMessage ==
  [role |-> "assistant", content |-> "",
   card |-> [id |-> NoId, title |-> "Summary", chunks |-> <<>>], doc |-> "h1"]

FigureCardMessage ==
  [role |-> "assistant", content |-> "",
   card |-> [id |-> <<"fig-analysis-", 1>>, title |-> "Fig. 1 Analysis",
             chunks |-> <<>>],
   doc |-> "h1"]

InitNotes ==
  /\ status = [d \in DocIds |-> "completed"]
  /\ index = [d \in DocIds |-> NChunks(d)]
  /\ embedded = [d \in DocIds |-> NChunks(d)]
  /\ stored = [d \in DocIds |-> IF d = "h1" THEN 1 ELSE 2]
  /\ tasks = [d \in DocIds |-> <<>>]
  /\ upload = IdleUpload
  /\ embedReqs = [d \in DocIds |-> <<>>]
  /\ histReqs = <<>>
  /\ metaReqs = <<>>
  /\ delReqs = [d \in DocIds |-> NoDelete]
  /\ docId = "h1"
  /\ currentPage = 1
  /\ isUploading = FALSE
  /\ showHistoryModal = FALSE
  /\ loadingHistory = FALSE
  /\ uploadedFiles = status
  /\ embeddingInProgress = [d \in DocIds |-> FALSE]
  /\ catalog = <<>>
  /\ figures = <<>>
  /\ showFigures = FALSE
  /\ alert = ""
  /\ figReqs = <<>>
  /\ resolveReqs = <<>>
  /\ loading = FALSE
  /\ ragQuerying = FALSE
  /\ messages = <<SummaryCardMessage, FigureCardMessage>>
  /\ input = ""
  /\ abortControllerRef = 0
  /\ agentReqs = <<>>
  /\ topK = MaxTopK
  /\ docNotes = [d \in DocIds |-> <<StoredNote(d)>>]
  /\ docChat = [d \in DocIds |-> IF d = "h1"
                                 THEN <<SummaryCardMessage, FigureCardMessage>>
                                 ELSE <<>>]
  /\ notes = docNotes["h1"]
  /\ chatHistory = docChat["h1"]
  /\ pdfUrl = getPdfUrl("h1")
  /\ isGeneratingSummary = FALSE
  /\ appAbortControllerRef = 0
  /\ genReqs = <<>>
  /\ autosaveTimer = FALSE
  /\ saveReqs = <<>>
  /\ noteReqs = <<>>
  /\ editor = NoEditor
  /\ numPages = 0

NextNotes ==
  \/ \E n \in DOMAIN messages : AddToNotebook(n)
  \/ \E k \in DOMAIN notes : handleRemoveNote(k)
  \/ \E i \in DOMAIN noteReqs : \E ok \in BOOLEAN : BackendNotes(i, ok)
  \/ \E i \in DOMAIN noteReqs : handleAddNoteReturns(i)
  \/ \E i \in DOMAIN noteReqs : handleRemoveNoteReturns(i)
  \/ PanelsReachable /\ NoteRoom /\ handleAnalyzePaper
  \/ \E i \in DOMAIN genReqs : BackendGenerate(i, "ok")
  \/ \E i \in DOMAIN genReqs : handleAnalyzePaperDone(i)
  \/ \E i \in DOMAIN genReqs : \E ok \in BOOLEAN : BackendAddNote(i, ok)
  \/ \E i \in DOMAIN genReqs : handleAddNoteDone(i)

SpecNotes == InitNotes /\ [][NextNotes]_vars

InitEdit == InitNotes

NextEdit ==
  \/ \E n \in DOMAIN messages : AddToNotebook(n)
  \/ \E i \in DOMAIN noteReqs : \E ok \in BOOLEAN : BackendNotes(i, ok)
  \/ \E i \in DOMAIN noteReqs : handleAddNoteReturns(i)
  \/ \E k \in DOMAIN notes : handleNoteClick(k)
  \/ closeModal
  \/ EditNote
  \/ handleSave
  \/ \E i \in DOMAIN noteReqs : handleUpdateNoteDone(i)

SpecEdit == InitEdit /\ [][NextEdit]_vars

\* C24: a step that adds a note, from a card of the conversation or at the
\* end of a paper analysis, changes the displayed notes only by appending
\* one note: the notes displayed before it are all still displayed, in
\* their order, and no other note appears.
C24_AddOnlyAppends ==
  [][ (\/ \E n \in DOMAIN messages : AddToNotebook(n)
       \/ \E i \in DOMAIN genReqs :
            handleAnalyzePaperDone(i) /\ genReqs[i].st = "ok")
      => /\ Len(notes') = Len(notes) + 1
         /\ SubSeq(notes', 1, Len(notes)) = notes ]_vars

\* C25: the displayed notes have pairwise distinct ids.
C25_DistinctIds ==
  \A i, j \in DOMAIN notes : i # j => notes[i].id # notes[j].id

\* C27: when handleAddNote returns after addNoteToDoc failed, the note it
\* tried to save is no longer displayed.
C27_FailedAddReverted ==
  [][ \A i \in DOMAIN noteReqs :
        (handleAddNoteReturns(i) /\ noteReqs[i].st = "error")
        => \A k \in DOMAIN notes' : notes'[k].id # noteReqs[i].note.id ]_vars

\* C26: pressing Save changes no displayed note; when updateNoteInDoc has
\* failed the displayed notes are unchanged, the editor alerts, stays in the
\* mode it is in and resets isSaving; when it has succeeded exactly one
\* displayed note, the edited one, is replaced and edit mode ends.
C26_EditAfterAccepted ==
  [][ /\ handleSave => notes' = notes
      /\ \A i \in DOMAIN noteReqs :
           handleUpdateNoteDone(i)
           => IF noteReqs[i].st = "error"
              THEN /\ notes' = notes
                   /\ alert' = "Failed to save changes"
                   /\ editor'.isEditing = editor.isEditing
                   /\ ~editor'.isSaving
              ELSE /\ \E k \in DOMAIN notes :
                        /\ notes[k].id = noteReqs[i].note.id
                        /\ notes' = [notes EXCEPT ![k] = noteReqs[i].note]
                   /\ ~editor'.isEditing
                   /\ ~editor'.isSaving ]_vars

====
